---- MODULE Spec2Model ----
(***************************************************************************)
(* Arista switch orchestrator backend: the Express route handlers of       *)
(* routes/switches.js, routes/vlans.js, routes/vxlans.js and               *)
(* routes/tunnels.js, the AristaClient they call, the inventory file       *)
(* config/switches.json and the switches reached over eAPI; and, in the    *)
(* browser, the Add Switch dialog.                                         *)
(*                                                                         *)
(* A request is a slot r \in Req.  Every await of a handler is a point     *)
(* where other requests may run, so a handler is a chain of actions, one   *)
(* per stretch of code between two awaits.                                 *)
(*                                                                         *)
(* Encodings.  A switch id `switch-<t>` is the natural number t; 0 is a    *)
(* missing or empty id.  A plain string field that is missing or empty is  *)
(* "".  Values that the code parses or formats (vni, vlan, vlanId) are     *)
(* JavaScript values [t, n, s] and strings of characters are sequences of  *)
(* one-character strings.                                                  *)
(***************************************************************************)
EXTENDS Integers, Sequences, FiniteSets, TLC

\* Number of request slots (requests that may be in flight together).
NReq == 2
\* Largest reading of Date.now(); the clock starts at 3, after the ids of
\* the switches already in the inventory.
MaxClock == 4

\* Largest number of SwitchesAPI calls of one dialog.
MaxCalls == 3

VLAN_MAX == 4094
VNI_MAX == 16777215

Req == 1..NReq

VARIABLES
  file,        \* contents of config/switches.json: the `switches` array
  fileExists,  \* whether config/switches.json exists
  swLog,       \* per switch host: the command batches it has applied, in order
  clock,       \* last reading of Date.now()
  pc,          \* per request: position in its handler
  kind,        \* per request: the route that handles it
  body,        \* per request: req.body and req.params
  loc,         \* per request: the handler's local variables
  resp,        \* per request: the response sent, status 0 when none yet
  sent,        \* per request: the eAPI calls it has issued, in order
  writes,      \* per request: number of fs.writeFile calls it has made
  ui,          \* the browser: state of the Add Switch dialog
  wizard       \* the browser: state of the Tunnel Wizard

vars == <<file, fileExists, swLog, clock, pc, kind, body, loc, resp, sent, writes, ui, wizard>>

----------------------------------------------------------------------------
\* JavaScript values

Undef == [t |-> "undefined", n |-> 0, s |-> <<>>]
Num(n) == [t |-> "number", n |-> n, s |-> <<>>]
Str(s) == [t |-> "string", n |-> 0, s |-> s]

\* !v is false
Truthy(v) ==
  CASE v.t = "undefined" -> FALSE
    [] v.t = "number" -> v.n # 0
    [] v.t = "string" -> v.s # <<>>

DigitChars == <<"0", "1", "2", "3", "4", "5", "6", "7", "8", "9">>

RECURSIVE NatToStr(_)
NatToStr(n) ==
  IF n < 10 THEN <<DigitChars[n + 1]>>
  ELSE NatToStr(n \div 10) \o <<DigitChars[(n % 10) + 1]>>

\* `${v}` in a template literal
ToStr(v) ==
  CASE v.t = "undefined" -> <<"u", "n", "d", "e", "f", "i", "n", "e", "d">>
    [] v.t = "number" -> IF v.n < 0 THEN <<"-">> \o NatToStr(0 - v.n) ELSE NatToStr(v.n)
    [] v.t = "string" -> v.s

\* a parsed number, or NaN
NaN == [nan |-> TRUE, n |-> 0]
Number(n) == [nan |-> FALSE, n |-> n]

IsDigit(c) == \E d \in 1..10 : DigitChars[d] = c
DigitVal(c) == (CHOOSE d \in 1..10 : DigitChars[d] = c) - 1

HexChars == <<"0", "1", "2", "3", "4", "5", "6", "7", "8", "9",
              "a", "b", "c", "d", "e", "f">>
HexUpper == <<"0", "1", "2", "3", "4", "5", "6", "7", "8", "9",
              "A", "B", "C", "D", "E", "F">>
IsHex(c) == \E d \in 1..16 : HexChars[d] = c \/ HexUpper[d] = c
HexVal(c) == (CHOOSE d \in 1..16 : HexChars[d] = c \/ HexUpper[d] = c) - 1

\* the value of the longest run of digits of s that starts at i
RECURSIVE DecRun(_, _, _)
DecRun(s, i, acc) ==
  IF i > Len(s) \/ ~IsDigit(s[i]) THEN acc
  ELSE DecRun(s, i + 1, acc * 10 + DigitVal(s[i]))

RECURSIVE HexRun(_, _, _)
HexRun(s, i, acc) ==
  IF i > Len(s) \/ ~IsHex(s[i]) THEN acc
  ELSE HexRun(s, i + 1, acc * 16 + HexVal(s[i]))

RECURSIVE SkipSpace(_, _)
SkipSpace(s, i) == IF i <= Len(s) /\ s[i] = " " THEN SkipSpace(s, i + 1) ELSE i

\* parseInt of a string: leading blanks, a sign, a 0x prefix, then the
\* longest run of digits; NaN when there is no digit
ParseIntStr(s) ==
  LET i == SkipSpace(s, 1)
      neg == i <= Len(s) /\ s[i] = "-"
      j == IF i <= Len(s) /\ s[i] \in {"-", "+"} THEN i + 1 ELSE i
      hex == j + 1 <= Len(s) /\ s[j] = "0" /\ s[j + 1] \in {"x", "X"}
      mag == IF hex
             THEN IF j + 2 <= Len(s) /\ IsHex(s[j + 2]) THEN Number(HexRun(s, j + 2, 0)) ELSE NaN
             ELSE IF j <= Len(s) /\ IsDigit(s[j]) THEN Number(DecRun(s, j, 0)) ELSE NaN
  IN IF mag.nan THEN NaN ELSE IF neg THEN Number(0 - mag.n) ELSE mag

\* parseInt(v): the argument is converted to a string first
ParseInt(v) == ParseIntStr(ToStr(v))

----------------------------------------------------------------------------
\* The switches and the inventory

Hosts == {"10.0.0.1", "10.0.0.2"}

Sw1 == [id |-> 1, hostname |-> "leaf1", mgmtIP |-> "10.0.0.1", username |-> "admin",
        password |-> "pw1", model |-> "vEOS", eosVersion |-> "4.28", uptime |-> "1d",
        status |-> "connected"]
Sw2 == [id |-> 2, hostname |-> "leaf2", mgmtIP |-> "10.0.0.2", username |-> "admin",
        password |-> "pw2", model |-> "vEOS", eosVersion |-> "4.28", uptime |-> "1d",
        status |-> "connected"]

\* What a switch answers to one eAPI call: the reply the client sees and
\* whether the switch applied the batch.
Outcomes ==
  { [reply |-> "result", applied |-> TRUE],
    [reply |-> "httpError", applied |-> FALSE],
    [reply |-> "rpcError", applied |-> FALSE],
    [reply |-> "noResult", applied |-> TRUE],
    [reply |-> "noResult", applied |-> FALSE] }

\* runCommands without the `if (data.error)` check
RunCommands_NoErrorCheck(o) ==
  CASE o.reply = "httpError" -> [threw |-> TRUE, msg |-> "HTTP Error", value |-> "none"]
    [] o.reply = "rpcError" -> [threw |-> FALSE, msg |-> "", value |-> "undefined"]
    [] o.reply = "noResult" -> [threw |-> FALSE, msg |-> "", value |-> "undefined"]
    [] o.reply = "result" -> [threw |-> FALSE, msg |-> "", value |-> "result"]

\* AristaClient.runCommands: what the caller gets for a reply
RunCommands(o) ==
  CASE o.reply = "httpError" -> [threw |-> TRUE, msg |-> "HTTP Error", value |-> "none"]
    [] o.reply = "rpcError" -> [threw |-> TRUE, msg |-> "eAPI Error", value |-> "none"]
    [] o.reply = "noResult" -> [threw |-> FALSE, msg |-> "", value |-> "undefined"]
    [] o.reply = "result" -> [threw |-> FALSE, msg |-> "", value |-> "result"]

\* new AristaClient({host, username, password})
AristaClient(host, username, password) ==
  [host |-> host, username |-> username, password |-> password]

NoClient == AristaClient("", "", "")

\* switches.find(s => s.id === switchId): index of the first match, 0 if none
FindIndex(switches, switchId) ==
  IF \E i \in 1..Len(switches) : switches[i].id = switchId
  THEN CHOOSE i \in 1..Len(switches) :
         /\ switches[i].id = switchId
         /\ \A j \in 1..(i - 1) : switches[j].id # switchId
  ELSE 0

\* loadSwitchesConfig of routes/tunnels.js, vlans.js, vxlans.js: a missing
\* file reads as the empty list and nothing is written
LoadSwitchesConfigRO == IF fileExists THEN file ELSE <<>>

\* getSwitchClient: the client, or the thrown error
GetSwitchClient(switches, switchId) ==
  LET i == FindIndex(switches, switchId) IN
  IF i = 0
  THEN [threw |-> TRUE, msg |-> "Switch not found", client |-> NoClient]
  ELSE [threw |-> FALSE, msg |-> "",
        client |-> AristaClient(switches[i].mgmtIP, switches[i].username, switches[i].password)]

\* The switch applies a batch: it is appended to the host's log.
Apply(log, host, o, r, cmds) ==
  IF o.applied /\ host \in Hosts
  THEN [log EXCEPT ![host] = Append(@, [req |-> r, cmds |-> cmds])]
  ELSE log

\* A call to an address that is no switch can only fail at the HTTP level.
OutcomesOf(host) ==
  IF host \in Hosts THEN Outcomes ELSE {[reply |-> "httpError", applied |-> FALSE]}

----------------------------------------------------------------------------
\* Requests

NoBody == [none |-> TRUE]
NoLoc == [none |-> TRUE]
NoResp == [status |-> 0, error |-> "", result |-> "none"]

Idle(r) == pc[r] = "idle"
\* slots are taken in arrival order
Arrives(r) == Idle(r) /\ \A q \in 1..(r - 1) : ~Idle(q)
Done(r) == pc[r] = "done"

\* an error response that forgets res.status(code)
ErrorResp_StatusOk(code, msg) == [status |-> 200, error |-> msg, result |-> "none"]

\* res.status(code).json({error})
ErrorResp(code, msg) == [status |-> code, error |-> msg, result |-> "none"]

----------------------------------------------------------------------------
\* POST /api/tunnels/create (routes/tunnels.js)

Null == "null"

Phase(name, status, progress) == [name |-> name, status |-> status, progress |-> progress]

PhaseSessions == Phase("Creating configuration sessions", "complete", 20)
PhaseSwitchA == Phase("Configuring Switch A", "complete", 50)
PhaseSwitchB == Phase("Configuring Switch B", "complete", 80)
PhaseVerify == Phase("Verifying tunnel configuration", "complete", 100)

\* `Error during phase at ${phaseProgress}%`
ErrorPhaseName(phaseProgress) ==
  CASE phaseProgress = 0 -> "Error during phase at 0%"
    [] phaseProgress = 20 -> "Error during phase at 20%"
    [] phaseProgress = 50 -> "Error during phase at 50%"
    [] phaseProgress = 80 -> "Error during phase at 80%"
    [] phaseProgress = 100 -> "Error during phase at 100%"

Cmd(op, a, b, text) == [op |-> op, a |-> a, b |-> b, text |-> text]

\* const commandsA = [...]
CommandsA(b) ==
  << Cmd("enable", <<>>, <<>>, ""),
     Cmd("configure", <<>>, <<>>, ""),
     Cmd("vlan", ToStr(b.vlan), <<>>, ""),
     Cmd("name VXLAN-", ToStr(b.vni), <<>>, ""),
     Cmd("exit", <<>>, <<>>, ""),
     Cmd("interface vxlan 1", <<>>, <<>>, ""),
     Cmd("vxlan vni _ vlan _", ToStr(b.vni), ToStr(b.vlan), ""),
     Cmd("vxlan source-interface Loopback0", <<>>, <<>>, ""),
     Cmd("vxlan flood vtep", <<>>, <<>>, b.vtepB),
     Cmd("end", <<>>, <<>>, "") >>

\* commandsB copied from commandsA without mirroring the flood VTEP
CommandsB_NotMirrored(b) ==
  << Cmd("enable", <<>>, <<>>, ""),
     Cmd("configure", <<>>, <<>>, ""),
     Cmd("vlan", ToStr(b.vlan), <<>>, ""),
     Cmd("name VXLAN-", ToStr(b.vni), <<>>, ""),
     Cmd("exit", <<>>, <<>>, ""),
     Cmd("interface vxlan 1", <<>>, <<>>, ""),
     Cmd("vxlan vni _ vlan _", ToStr(b.vni), ToStr(b.vlan), ""),
     Cmd("vxlan source-interface Loopback0", <<>>, <<>>, ""),
     Cmd("vxlan flood vtep", <<>>, <<>>, b.vtepB),
     Cmd("end", <<>>, <<>>, "") >>

\* const commandsB = [...]
CommandsB(b) ==
  << Cmd("enable", <<>>, <<>>, ""),
     Cmd("configure", <<>>, <<>>, ""),
     Cmd("vlan", ToStr(b.vlan), <<>>, ""),
     Cmd("name VXLAN-", ToStr(b.vni), <<>>, ""),
     Cmd("exit", <<>>, <<>>, ""),
     Cmd("interface vxlan 1", <<>>, <<>>, ""),
     Cmd("vxlan vni _ vlan _", ToStr(b.vni), ToStr(b.vlan), ""),
     Cmd("vxlan source-interface Loopback0", <<>>, <<>>, ""),
     Cmd("vxlan flood vtep", <<>>, <<>>, b.vtepA),
     Cmd("end", <<>>, <<>>, "") >>

\* the required-fields check
CreateBodyOk(b) ==
  /\ b.switchA # 0
  /\ b.switchB # 0
  /\ Truthy(b.vni)
  /\ b.vtepA # ""
  /\ b.vtepB # ""
  /\ Truthy(b.vlan)

\* the result object with phase 1 recorded
CreateInitResult(sessionId) ==
  [sessionId |-> sessionId, status |-> "inProgress",
   phases |-> <<PhaseSessions>>, errorMessage |-> Null]

\* a catch block that forgets to set the status
CreateCatch_NoStatus(result, phaseProgress, msg) ==
  [result EXCEPT
     !.phases = Append(@, Phase(ErrorPhaseName(phaseProgress), "failed", phaseProgress)),
     !.errorMessage = msg]

\* a catch block that starts the phase list afresh
CreateCatch_ResetPhases(result, phaseProgress, msg) ==
  [result EXCEPT
     !.phases = <<Phase(ErrorPhaseName(phaseProgress), "failed", phaseProgress)>>,
     !.status = "failed",
     !.errorMessage = msg]

\* the inner catch block
CreateCatch(result, phaseProgress, msg) ==
  [result EXCEPT
     !.phases = Append(@, Phase(ErrorPhaseName(phaseProgress), "failed", phaseProgress)),
     !.status = "failed",
     !.errorMessage = msg]

\* a phase record whose progress falls back
CreateAfterA_ProgressFallsBack(result) ==
  [result EXCEPT !.phases = Append(@, Phase("Configuring Switch A", "complete", 10))]

\* after switch A's batch
CreateAfterA(result) == [result EXCEPT !.phases = Append(@, PhaseSwitchA)]

\* the verify phase left out
CreateAfterB_NoVerify(result) ==
  [result EXCEPT !.phases = Append(@, PhaseSwitchB), !.status = "success"]

\* after switch B's batch: phases 3 and 4 and success
CreateAfterB(result) ==
  [result EXCEPT !.phases = Append(Append(@, PhaseSwitchB), PhaseVerify),
                 !.status = "success"]

\* res.json(result)
ResultResp(result) == [status |-> 200, error |-> "", result |-> result]

\* one eAPI call as the request issued it
Call(role, client, cmds) ==
  [role |-> role, host |-> client.host, username |-> client.username,
   password |-> client.password, cmds |-> cmds, reply |-> "pending"]

\* validation, result initialisation (the session id is the clock reading),
\* phase 1, and the call of getSwitchClient(switchA) up to its readFile
CreateReceive(r, b) ==
  /\ Arrives(r)
  /\ kind' = [kind EXCEPT ![r] = "tunnelCreate"]
  /\ body' = [body EXCEPT ![r] = b]
  /\ IF ~CreateBodyOk(b)
     THEN /\ resp' = [resp EXCEPT ![r] = ErrorResp(400, "Missing required fields")]
          /\ pc' = [pc EXCEPT ![r] = "done"]
          /\ UNCHANGED loc
     ELSE /\ loc' = [loc EXCEPT ![r] = [result |-> CreateInitResult(clock),
                                        phaseProgress |-> 20,
                                        client |-> NoClient]]
          /\ pc' = [pc EXCEPT ![r] = "resolveA"]
          /\ UNCHANGED resp
  /\ UNCHANGED <<file, fileExists, swLog, clock, sent, writes, ui, wizard>>

\* the request answers with the failed result
CreateFail(r, msg) ==
  /\ resp' = [resp EXCEPT ![r] =
                ResultResp(CreateCatch(loc[r].result, loc[r].phaseProgress, msg))]
  /\ loc' = [loc EXCEPT ![r].result = CreateCatch(@, loc[r].phaseProgress, msg)]
  /\ pc' = [pc EXCEPT ![r] = "done"]

\* a loadSwitchesConfig that creates the missing file, as the one of
\* routes/switches.js does
CreateResolveA_Creating(r) ==
  /\ pc[r] = "resolveA"
  /\ file' = IF fileExists THEN file ELSE <<>>
  /\ fileExists' = TRUE
  /\ writes' = [writes EXCEPT ![r] = IF fileExists THEN @ ELSE @ + 1]
  /\ LET g == GetSwitchClient(LoadSwitchesConfigRO, body[r].switchA) IN
     IF g.threw
     THEN /\ CreateFail(r, g.msg)
          /\ UNCHANGED sent
     ELSE /\ sent' = [sent EXCEPT ![r] = Append(@, Call("A", g.client, CommandsA(body[r])))]
          /\ loc' = [loc EXCEPT ![r].client = g.client]
          /\ pc' = [pc EXCEPT ![r] = "callA"]
          /\ UNCHANGED resp
  /\ UNCHANGED <<swLog, clock, kind, body, ui, wizard>>

\* getSwitchClient(switchA) returns; commandsA is built and its fetch issued
CreateResolveA(r) ==
  /\ pc[r] = "resolveA"
  /\ LET g == GetSwitchClient(LoadSwitchesConfigRO, body[r].switchA) IN
     IF g.threw
     THEN /\ CreateFail(r, g.msg)
          /\ UNCHANGED sent
     ELSE /\ sent' = [sent EXCEPT ![r] = Append(@, Call("A", g.client, CommandsA(body[r])))]
          /\ loc' = [loc EXCEPT ![r].client = g.client]
          /\ pc' = [pc EXCEPT ![r] = "callA"]
          /\ UNCHANGED resp
  /\ UNCHANGED <<file, fileExists, swLog, clock, kind, body, writes, ui, wizard>>

\* switch A answers; on success phase 2 is recorded and
\* getSwitchClient(switchB) is called
CreateCallA(r, o) ==
  /\ pc[r] = "callA"
  /\ o \in OutcomesOf(loc[r].client.host)
  /\ swLog' = Apply(swLog, loc[r].client.host, o, r, sent[r][Len(sent[r])].cmds)
  /\ sent' = [sent EXCEPT ![r][Len(sent[r])].reply = o.reply]
  /\ IF RunCommands(o).threw
     THEN CreateFail(r, RunCommands(o).msg)
     ELSE /\ loc' = [loc EXCEPT ![r].result = CreateAfterA(@), ![r].phaseProgress = 50]
          /\ pc' = [pc EXCEPT ![r] = "resolveB"]
          /\ UNCHANGED resp
  /\ UNCHANGED <<file, fileExists, clock, kind, body, writes, ui, wizard>>

\* a create handler that holds a lock from switch A's batch to its answer:
\* it goes on to switch B only when no other create is between the two
CreateResolveB_Serialised(r) ==
  /\ pc[r] = "resolveB"
  /\ \A q \in Req \ {r} : pc[q] \notin {"resolveB", "callB"}
  /\ LET g == GetSwitchClient(LoadSwitchesConfigRO, body[r].switchB) IN
     IF g.threw
     THEN /\ CreateFail(r, g.msg)
          /\ UNCHANGED sent
     ELSE /\ sent' = [sent EXCEPT ![r] = Append(@, Call("B", g.client, CommandsB(body[r])))]
          /\ loc' = [loc EXCEPT ![r].client = g.client]
          /\ pc' = [pc EXCEPT ![r] = "callB"]
          /\ UNCHANGED resp
  /\ UNCHANGED <<file, fileExists, swLog, clock, kind, body, writes, ui, wizard>>

\* getSwitchClient(switchB) returns; commandsB is built and its fetch issued
CreateResolveB(r) ==
  /\ pc[r] = "resolveB"
  /\ LET g == GetSwitchClient(LoadSwitchesConfigRO, body[r].switchB) IN
     IF g.threw
     THEN /\ CreateFail(r, g.msg)
          /\ UNCHANGED sent
     ELSE /\ sent' = [sent EXCEPT ![r] = Append(@, Call("B", g.client, CommandsB(body[r])))]
          /\ loc' = [loc EXCEPT ![r].client = g.client]
          /\ pc' = [pc EXCEPT ![r] = "callB"]
          /\ UNCHANGED resp
  /\ UNCHANGED <<file, fileExists, swLog, clock, kind, body, writes, ui, wizard>>

\* switch B answers; on success phases 3 and 4 are recorded and the
\* result is returned
CreateCallB(r, o) ==
  /\ pc[r] = "callB"
  /\ o \in OutcomesOf(loc[r].client.host)
  /\ swLog' = Apply(swLog, loc[r].client.host, o, r, sent[r][Len(sent[r])].cmds)
  /\ sent' = [sent EXCEPT ![r][Len(sent[r])].reply = o.reply]
  /\ IF RunCommands(o).threw
     THEN CreateFail(r, RunCommands(o).msg)
     ELSE /\ loc' = [loc EXCEPT ![r].result = CreateAfterB(@), ![r].phaseProgress = 100]
          /\ resp' = [resp EXCEPT ![r] = ResultResp(CreateAfterB(loc[r].result))]
          /\ pc' = [pc EXCEPT ![r] = "done"]
  /\ UNCHANGED <<file, fileExists, clock, kind, body, writes, ui, wizard>>

\* POST /api/tunnels/preview

\* the required-fields check of the preview
PreviewBodyOk(b) ==
  /\ b.switchA # 0
  /\ b.switchB # 0
  /\ Truthy(b.vni)
  /\ b.vtepA # ""
  /\ b.vtepB # ""
  /\ Truthy(b.vlan)

\* const configA = [...]
PreviewConfigA(b) ==
  << Cmd("!", <<>>, <<>>, ""),
     Cmd("! Switch A VXLAN Configuration", <<>>, <<>>, ""),
     Cmd("!", <<>>, <<>>, ""),
     Cmd("interface vxlan 1", <<>>, <<>>, ""),
     Cmd("vxlan vni _ vlan _", ToStr(b.vni), ToStr(b.vlan), ""),
     Cmd("vxlan source-interface Loopback0", <<>>, <<>>, ""),
     Cmd("vxlan flood vtep", <<>>, <<>>, b.vtepB),
     Cmd("!", <<>>, <<>>, ""),
     Cmd("vlan", ToStr(b.vlan), <<>>, ""),
     Cmd("name VXLAN-", ToStr(b.vni), <<>>, ""),
     Cmd("!", <<>>, <<>>, "") >>

\* const configB = [...]
PreviewConfigB(b) ==
  << Cmd("!", <<>>, <<>>, ""),
     Cmd("! Switch B VXLAN Configuration", <<>>, <<>>, ""),
     Cmd("!", <<>>, <<>>, ""),
     Cmd("interface vxlan 1", <<>>, <<>>, ""),
     Cmd("vxlan vni _ vlan _", ToStr(b.vni), ToStr(b.vlan), ""),
     Cmd("vxlan source-interface Loopback0", <<>>, <<>>, ""),
     Cmd("vxlan flood vtep", <<>>, <<>>, b.vtepA),
     Cmd("!", <<>>, <<>>, ""),
     Cmd("vlan", ToStr(b.vlan), <<>>, ""),
     Cmd("name VXLAN-", ToStr(b.vni), <<>>, ""),
     Cmd("!", <<>>, <<>>, "") >>

\* the whole handler: it awaits nothing
PreviewReceive(r, b) ==
  /\ Arrives(r)
  /\ kind' = [kind EXCEPT ![r] = "tunnelPreview"]
  /\ body' = [body EXCEPT ![r] = b]
  /\ resp' = [resp EXCEPT ![r] =
                IF ~PreviewBodyOk(b)
                THEN ErrorResp(400, "Missing required fields")
                ELSE [status |-> 200, error |-> "",
                      result |-> [configA |-> PreviewConfigA(b), configB |-> PreviewConfigB(b)]]]
  /\ pc' = [pc EXCEPT ![r] = "done"]
  /\ UNCHANGED <<file, fileExists, swLog, clock, loc, sent, writes, ui, wizard>>

----------------------------------------------------------------------------
\* routes/vlans.js and the VXLAN routes

\* res.status(code).json(...) of a success
OkResp(code) == [status |-> code, error |-> "", result |-> "none"]

\* AristaClient.createVlan: the batch
CreateVlanCommands(vlanId, name) ==
  << Cmd("enable", <<>>, <<>>, ""),
     Cmd("configure", <<>>, <<>>, ""),
     Cmd("vlan", ToStr(vlanId), <<>>, ""),
     Cmd("name", <<>>, <<>>, name),
     Cmd("end", <<>>, <<>>, "") >>

\* AristaClient.deleteVlan: the batch
DeleteVlanCommands(vlanId) ==
  << Cmd("enable", <<>>, <<>>, ""),
     Cmd("configure", <<>>, <<>>, ""),
     Cmd("no vlan", ToStr(vlanId), <<>>, ""),
     Cmd("end", <<>>, <<>>, "") >>

\* AristaClient.configureVxlan: the batch
ConfigureVxlanCommands(vni, vlan, sourceInterface, vtepIp) ==
  << Cmd("enable", <<>>, <<>>, ""),
     Cmd("configure", <<>>, <<>>, ""),
     Cmd("interface vxlan 1", <<>>, <<>>, ""),
     Cmd("vxlan vni _ vlan _", ToStr(vni), ToStr(vlan), ""),
     Cmd("vxlan source-interface", <<>>, <<>>, sourceInterface),
     Cmd("vxlan vlan _ vni _", ToStr(vlan), ToStr(vni), ""),
     Cmd("vxlan flood vtep", <<>>, <<>>, vtepIp),
     Cmd("end", <<>>, <<>>, "") >>

\* AristaClient.getVlans: the batch
GetVlansCommands == <<Cmd("show vlan", <<>>, <<>>, "")>>

\* GET /api/tunnels/:switchId: the batch
ShowVxlanVniCommands == <<Cmd("show vxlan vni", <<>>, <<>>, "")>>

\* a validation without the range check
VlanCreateInvalid_NoRange(b) ==
  IF ~Truthy(b.vlanId) \/ b.name = "" THEN "VLAN ID and name are required"
  ELSE IF ParseInt(b.vlanId).nan THEN "Invalid VLAN ID (must be between 1-4094)"
  ELSE ""

\* POST /api/vlans/:switchId: 400 message of the validation, "" when it passes
VlanCreateInvalid(b) ==
  IF ~Truthy(b.vlanId) \/ b.name = "" THEN "VLAN ID and name are required"
  ELSE IF ParseInt(b.vlanId).nan \/ ParseInt(b.vlanId).n < 1 \/ ParseInt(b.vlanId).n > VLAN_MAX
       THEN "Invalid VLAN ID (must be between 1-4094)"
  ELSE ""

\* DELETE /api/vlans/:switchId/:vlanId: 400 message of the validation
VlanDeleteInvalid(b) ==
  IF ParseInt(b.vlanId).nan THEN "Invalid VLAN ID" ELSE ""

\* POST /api/vxlans/:switchId: 400 message of the validation
VxlanCreateInvalid(b) ==
  IF ~Truthy(b.vni) \/ ~Truthy(b.vlan) \/ b.sourceInterface = "" \/ b.vtepIp = ""
  THEN "VNI, VLAN, source interface, and VTEP IP are required"
  ELSE IF ParseInt(b.vni).nan \/ ParseInt(b.vni).n < 1 \/ ParseInt(b.vni).n > VNI_MAX
       THEN "Invalid VNI (must be between 1-16777215)"
  ELSE ""

\* the batch a validated request sends once its client is resolved
BatchOf(k, b) ==
  CASE k = "vlanCreate" -> CreateVlanCommands(Num(ParseInt(b.vlanId).n), b.name)
    [] k = "vlanDelete" -> DeleteVlanCommands(Num(ParseInt(b.vlanId).n))
    [] k = "vxlanCreate" ->
         ConfigureVxlanCommands(Num(ParseInt(b.vni).n), b.vlan, b.sourceInterface, b.vtepIp)
    [] k = "vlanList" -> GetVlansCommands
    [] k = "tunnelList" -> ShowVxlanVniCommands

InvalidOf(k, b) ==
  CASE k = "vlanCreate" -> VlanCreateInvalid(b)
    [] k = "vlanDelete" -> VlanDeleteInvalid(b)
    [] k = "vxlanCreate" -> VxlanCreateInvalid(b)
    [] k = "vlanList" -> ""
    [] k = "tunnelList" -> ""

SwitchRoutes == {"vlanCreate", "vlanDelete", "vxlanCreate", "vlanList", "tunnelList"}

\* the GET routes: they destructure the result of their `show` command
ListRoutes == {"vlanList", "tunnelList"}

\* validation, then getSwitchClient(req.params.switchId) up to its readFile
SwitchRouteReceive(r, k, b) ==
  /\ Arrives(r)
  /\ k \in SwitchRoutes
  /\ kind' = [kind EXCEPT ![r] = k]
  /\ body' = [body EXCEPT ![r] = b]
  /\ IF InvalidOf(k, b) # ""
     THEN /\ resp' = [resp EXCEPT ![r] = ErrorResp(400, InvalidOf(k, b))]
          /\ pc' = [pc EXCEPT ![r] = "done"]
     ELSE /\ pc' = [pc EXCEPT ![r] = "resolve"]
          /\ UNCHANGED resp
  /\ loc' = [loc EXCEPT ![r] = [client |-> NoClient]]
  /\ UNCHANGED <<file, fileExists, swLog, clock, sent, writes, ui, wizard>>

\* getSwitchClient returns; the batch is built and its fetch issued
SwitchRouteResolve(r) ==
  /\ pc[r] = "resolve"
  /\ LET g == GetSwitchClient(LoadSwitchesConfigRO, body[r].switchId) IN
     IF g.threw
     THEN /\ resp' = [resp EXCEPT ![r] = ErrorResp(500, g.msg)]
          /\ pc' = [pc EXCEPT ![r] = "done"]
          /\ UNCHANGED <<sent, loc>>
     ELSE /\ sent' = [sent EXCEPT ![r] = Append(@, Call("S", g.client, BatchOf(kind[r], body[r])))]
          /\ loc' = [loc EXCEPT ![r].client = g.client]
          /\ pc' = [pc EXCEPT ![r] = "call"]
          /\ UNCHANGED resp
  /\ UNCHANGED <<file, fileExists, swLog, clock, kind, body, writes, ui, wizard>>

\* the switch answers; GET and DELETE respond, the POST routes go on to
\* loadSwitchesConfig for the response.  The GET routes destructure the
\* result, which throws when there is none; a `show` command configures
\* nothing.
SwitchRouteCall(r, o) ==
  /\ pc[r] = "call"
  /\ o \in OutcomesOf(loc[r].client.host)
  /\ swLog' = IF kind[r] \in ListRoutes THEN swLog
              ELSE Apply(swLog, loc[r].client.host, o, r, sent[r][Len(sent[r])].cmds)
  /\ sent' = [sent EXCEPT ![r][Len(sent[r])].reply = o.reply]
  /\ IF RunCommands(o).threw
     THEN /\ resp' = [resp EXCEPT ![r] = ErrorResp(500, RunCommands(o).msg)]
          /\ pc' = [pc EXCEPT ![r] = "done"]
     ELSE IF kind[r] \in ListRoutes
     THEN /\ resp' = [resp EXCEPT ![r] =
                        IF RunCommands(o).value = "undefined"
                        THEN ErrorResp(500, "undefined is not iterable")
                        ELSE OkResp(200)]
          /\ pc' = [pc EXCEPT ![r] = "done"]
     ELSE IF kind[r] = "vlanDelete"
     THEN /\ resp' = [resp EXCEPT ![r] = OkResp(200)]
          /\ pc' = [pc EXCEPT ![r] = "done"]
     ELSE /\ pc' = [pc EXCEPT ![r] = "info"]
          /\ UNCHANGED resp
  /\ UNCHANGED <<file, fileExists, clock, kind, body, loc, writes, ui, wizard>>

\* loadSwitchesConfig returns; switchInfo.id throws when the switch is gone
SwitchRouteInfo(r) ==
  /\ pc[r] = "info"
  /\ resp' = [resp EXCEPT ![r] =
                IF FindIndex(LoadSwitchesConfigRO, body[r].switchId) = 0
                THEN ErrorResp(500, "Cannot read properties of undefined")
                ELSE OkResp(201)]
  /\ pc' = [pc EXCEPT ![r] = "done"]
  /\ UNCHANGED <<file, fileExists, swLog, clock, kind, body, loc, sent, writes, ui, wizard>>

\* POST /api/vlans/:switchId/batch.  req.body.vlans is a sequence of
\* [vlanId, name]; a body whose vlans is missing or no array is the empty
\* sequence, which the handler rejects in the same branch.

BatchResult(success, vlanId, error) == [success |-> success, vlanId |-> vlanId, error |-> error]

\* the for loop up to its next await: entries without vlanId or name are
\* recorded as failures and skipped
RECURSIVE BatchSkip(_, _, _)
BatchSkip(vlans, i, results) ==
  IF i > Len(vlans) THEN [i |-> i, results |-> results]
  ELSE IF ~Truthy(vlans[i].vlanId) \/ vlans[i].name = ""
  THEN BatchSkip(vlans, i + 1,
                 Append(results, BatchResult(FALSE, vlans[i].vlanId, "VLAN ID and name are required")))
  ELSE [i |-> i, results |-> results]

\* the loop runs on from entry i: it issues createVlan for the next entry
\* that has both fields, or ends and responds with the results
BatchContinue(r, client, i, results) ==
  LET vlans == body[r].vlans
      nxt == BatchSkip(vlans, i, results)
  IN IF nxt.i > Len(vlans)
     THEN /\ resp' = [resp EXCEPT ![r] = [status |-> 200, error |-> "", result |-> nxt.results]]
          /\ pc' = [pc EXCEPT ![r] = "done"]
          /\ loc' = [loc EXCEPT ![r] = [client |-> client, i |-> nxt.i, results |-> nxt.results]]
          /\ sent' = sent
     ELSE /\ sent' = [sent EXCEPT ![r] =
                        Append(@, Call("S", client,
                                       CreateVlanCommands(vlans[nxt.i].vlanId, vlans[nxt.i].name)))]
          /\ loc' = [loc EXCEPT ![r] = [client |-> client, i |-> nxt.i, results |-> nxt.results]]
          /\ pc' = [pc EXCEPT ![r] = "batchCall"]
          /\ resp' = resp

\* the test of req.body.vlans, then getSwitchClient up to its readFile
BatchReceive(r, b) ==
  /\ Arrives(r)
  /\ kind' = [kind EXCEPT ![r] = "vlanBatch"]
  /\ body' = [body EXCEPT ![r] = b]
  /\ loc' = [loc EXCEPT ![r] = [client |-> NoClient, i |-> 1, results |-> <<>>]]
  /\ IF Len(b.vlans) = 0
     THEN /\ resp' = [resp EXCEPT ![r] = ErrorResp(400, "No VLANs provided")]
          /\ pc' = [pc EXCEPT ![r] = "done"]
     ELSE /\ pc' = [pc EXCEPT ![r] = "batchResolve"]
          /\ UNCHANGED resp
  /\ UNCHANGED <<file, fileExists, swLog, clock, sent, writes, ui, wizard>>

\* getSwitchClient returns and the loop starts
BatchResolve(r) ==
  /\ pc[r] = "batchResolve"
  /\ LET g == GetSwitchClient(LoadSwitchesConfigRO, body[r].switchId) IN
     IF g.threw
     THEN /\ resp' = [resp EXCEPT ![r] = ErrorResp(500, g.msg)]
          /\ pc' = [pc EXCEPT ![r] = "done"]
          /\ UNCHANGED <<sent, loc>>
     ELSE BatchContinue(r, g.client, 1, <<>>)
  /\ UNCHANGED <<file, fileExists, swLog, clock, kind, body, writes, ui, wizard>>

\* the switch answers one createVlan; its outcome is recorded and the loop
\* goes on with the next entry
BatchCall(r, o) ==
  /\ pc[r] = "batchCall"
  /\ o \in OutcomesOf(loc[r].client.host)
  /\ swLog' = Apply(swLog, loc[r].client.host, o, r, sent[r][Len(sent[r])].cmds)
  /\ LET i == loc[r].i
         answered == [sent EXCEPT ![r][Len(sent[r])].reply = o.reply]
         item == body[r].vlans[i]
         results == Append(loc[r].results,
                           IF RunCommands(o).threw
                           THEN BatchResult(FALSE, item.vlanId, RunCommands(o).msg)
                           ELSE BatchResult(TRUE, item.vlanId, ""))
         nxt == BatchSkip(body[r].vlans, i + 1, results)
     IN /\ loc' = [loc EXCEPT ![r].i = nxt.i, ![r].results = nxt.results]
        /\ IF nxt.i > Len(body[r].vlans)
           THEN /\ resp' = [resp EXCEPT ![r] = [status |-> 200, error |-> "", result |-> nxt.results]]
                /\ pc' = [pc EXCEPT ![r] = "done"]
                /\ sent' = answered
           ELSE /\ sent' = [answered EXCEPT ![r] =
                              Append(@, Call("S", loc[r].client,
                                             CreateVlanCommands(body[r].vlans[nxt.i].vlanId,
                                                                body[r].vlans[nxt.i].name)))]
                /\ UNCHANGED <<pc, resp>>
  /\ UNCHANGED <<file, fileExists, clock, kind, body, writes, ui, wizard>>

----------------------------------------------------------------------------
\* routes/switches.js: the inventory

NoSwitch == [id |-> 0, hostname |-> "", mgmtIP |-> "", username |-> "",
             password |-> "", model |-> "", eosVersion |-> "", uptime |-> "",
             status |-> ""]

\* what `show version` reports
VersionInfo == [modelName |-> "vEOS", version |-> "4.28", uptime |-> "1d"]

\* a || b on strings
Or(a, b) == IF a # "" THEN a ELSE b

\* Date.now(): time never runs backwards
Now(t) == t \in clock..MaxClock

\* a connection test that takes any answer for a connection
TestConnection_AnyAnswer(o) ==
  IF RunCommands(o).threw
  THEN [connected |-> FALSE, error |-> RunCommands(o).msg, model |-> "",
        eosVersion |-> "", uptime |-> ""]
  ELSE [connected |-> TRUE, error |-> "", model |-> VersionInfo.modelName,
        eosVersion |-> VersionInfo.version, uptime |-> VersionInfo.uptime]

\* AristaClient.testConnection: destructuring a missing result throws too
TestConnection(o) ==
  IF RunCommands(o).threw
  THEN [connected |-> FALSE, error |-> RunCommands(o).msg, model |-> "",
        eosVersion |-> "", uptime |-> ""]
  ELSE IF RunCommands(o).value = "undefined"
  THEN [connected |-> FALSE, error |-> "undefined is not iterable", model |-> "",
        eosVersion |-> "", uptime |-> ""]
  ELSE [connected |-> TRUE, error |-> "", model |-> VersionInfo.modelName,
        eosVersion |-> VersionInfo.version, uptime |-> VersionInfo.uptime]

\* a required-fields check that forgets the password
AddBodyOk_NoPassword(b) ==
  b.hostname # "" /\ b.mgmtIP # "" /\ b.username # ""

\* POST /api/switches: the required-fields check
AddBodyOk(b) ==
  b.hostname # "" /\ b.mgmtIP # "" /\ b.username # "" /\ b.password # ""

\* const newSwitch = {...}
NewSwitch(b, connectionTest, t) ==
  [id |-> t, hostname |-> b.hostname, mgmtIP |-> b.mgmtIP, username |-> b.username,
   password |-> b.password, model |-> Or(connectionTest.model, b.model),
   eosVersion |-> connectionTest.eosVersion, uptime |-> connectionTest.uptime,
   status |-> "connected"]

\* the password masked for the response
Masked(sw) == [sw EXCEPT !.password = "********"]

\* PUT /api/switches/:id: the spread of the non-empty body fields
Merge(sw, b) ==
  [sw EXCEPT !.hostname = Or(b.hostname, @),
             !.mgmtIP = Or(b.mgmtIP, @),
             !.username = Or(b.username, @),
             !.password = Or(b.password, @),
             !.status = Or(b.status, @)]

\* switches.filter(s => s.id !== switchId)
Without(switches, switchId) ==
  LET Keep(sw) == sw.id # switchId IN SelectSeq(switches, Keep)

\* a writeFile that keeps entries of the current file it does not know
WriteFile_Merging(current, switches) ==
  LET Missing(sw) == \A i \in DOMAIN switches : switches[i].id # sw.id
  IN switches \o SelectSeq(current, Missing)

\* fs.writeFile(SWITCHES_CONFIG_PATH, JSON.stringify({switches})): the new content
WriteFile(current, switches) == switches

InventoryRoutes == {"addSwitch", "updateSwitch", "deleteSwitch"}

InvLoc == [client |-> NoClient, newSwitch |-> NoSwitch, loaded |-> <<>>,
           switches |-> <<>>, index |-> 0]

\* POST /api/switches up to the fetch of testConnection
AddReceive(r, b) ==
  /\ Arrives(r)
  /\ kind' = [kind EXCEPT ![r] = "addSwitch"]
  /\ body' = [body EXCEPT ![r] = b]
  /\ IF ~AddBodyOk(b)
     THEN /\ resp' = [resp EXCEPT ![r] = ErrorResp(400, "Missing required fields")]
          /\ pc' = [pc EXCEPT ![r] = "done"]
          /\ loc' = [loc EXCEPT ![r] = InvLoc]
          /\ UNCHANGED sent
     ELSE /\ LET client == AristaClient(b.mgmtIP, b.username, b.password) IN
               /\ sent' = [sent EXCEPT ![r] =
                             Append(@, Call("T", client, <<Cmd("show version", <<>>, <<>>, "")>>))]
               /\ loc' = [loc EXCEPT ![r] = [InvLoc EXCEPT !.client = client]]
          /\ pc' = [pc EXCEPT ![r] = "test"]
          /\ UNCHANGED resp
  /\ UNCHANGED <<file, fileExists, swLog, clock, writes, ui, wizard>>

\* testConnection returns; the id is generated and loadSwitchesConfig called
AddTest(r, o, t) ==
  /\ pc[r] = "test"
  /\ o \in OutcomesOf(loc[r].client.host)
  /\ sent' = [sent EXCEPT ![r][Len(sent[r])].reply = o.reply]
  /\ IF ~TestConnection(o).connected
     THEN /\ resp' = [resp EXCEPT ![r] = ErrorResp(400, "Failed to connect to switch")]
          /\ pc' = [pc EXCEPT ![r] = "done"]
          /\ t = clock
          /\ UNCHANGED <<loc, clock>>
     ELSE /\ Now(t)
          /\ clock' = t
          /\ loc' = [loc EXCEPT ![r].newSwitch = NewSwitch(body[r], TestConnection(o), t)]
          /\ pc' = [pc EXCEPT ![r] = "load"]
          /\ UNCHANGED resp
  /\ UNCHANGED <<file, fileExists, swLog, kind, body, writes, ui, wizard>>

\* PUT /api/switches/:id up to the readFile of loadSwitchesConfig
UpdateReceive(r, b) ==
  /\ Arrives(r)
  /\ kind' = [kind EXCEPT ![r] = "updateSwitch"]
  /\ body' = [body EXCEPT ![r] = b]
  /\ loc' = [loc EXCEPT ![r] = InvLoc]
  /\ pc' = [pc EXCEPT ![r] = "load"]
  /\ UNCHANGED <<file, fileExists, swLog, clock, resp, sent, writes, ui, wizard>>

\* DELETE /api/switches/:id up to the readFile of loadSwitchesConfig
DeleteReceive(r, b) ==
  /\ Arrives(r)
  /\ kind' = [kind EXCEPT ![r] = "deleteSwitch"]
  /\ body' = [body EXCEPT ![r] = b]
  /\ loc' = [loc EXCEPT ![r] = InvLoc]
  /\ pc' = [pc EXCEPT ![r] = "load"]
  /\ UNCHANGED <<file, fileExists, swLog, clock, resp, sent, writes, ui, wizard>>

ReadRoutes == {"listSwitches", "getSwitch"}

\* GET /api/switches and GET /api/switches/:id up to the readFile of
\* loadSwitchesConfig
ReadReceive(r, k, b) ==
  /\ Arrives(r)
  /\ k \in ReadRoutes
  /\ kind' = [kind EXCEPT ![r] = k]
  /\ body' = [body EXCEPT ![r] = b]
  /\ loc' = [loc EXCEPT ![r] = InvLoc]
  /\ pc' = [pc EXCEPT ![r] = "load"]
  /\ UNCHANGED <<file, fileExists, swLog, clock, resp, sent, writes, ui, wizard>>

\* a list that sends the stored objects as they are
SafeSwitches_Unmasked(switches) == switches

\* switches.map(({ password, ...safe }) => ({...safe, password: '********'}))
SafeSwitches(switches) == [i \in DOMAIN switches |-> Masked(switches[i])]

\* the handler continues with the loaded array up to the writeFile of
\* saveSwitchesConfig, or answers
Loaded(r, switches) ==
  CASE kind[r] = "addSwitch" ->
         /\ loc' = [loc EXCEPT ![r].loaded = switches,
                               ![r].switches = Append(switches, loc[r].newSwitch)]
         /\ pc' = [pc EXCEPT ![r] = "save"]
         /\ UNCHANGED resp
    [] kind[r] = "updateSwitch" ->
         LET i == FindIndex(switches, body[r].id) IN
         IF i = 0
         THEN /\ resp' = [resp EXCEPT ![r] = ErrorResp(404, "Switch not found")]
              /\ pc' = [pc EXCEPT ![r] = "done"]
              /\ loc' = [loc EXCEPT ![r].loaded = switches]
         ELSE /\ loc' = [loc EXCEPT ![r].loaded = switches,
                                    ![r].switches = [switches EXCEPT ![i] = Merge(@, body[r])],
                                    ![r].index = i]
              /\ pc' = [pc EXCEPT ![r] = "save"]
              /\ UNCHANGED resp
    [] kind[r] = "deleteSwitch" ->
         IF Len(Without(switches, body[r].id)) = Len(switches)
         THEN /\ resp' = [resp EXCEPT ![r] = ErrorResp(404, "Switch not found")]
              /\ pc' = [pc EXCEPT ![r] = "done"]
              /\ loc' = [loc EXCEPT ![r].loaded = switches]
         ELSE /\ loc' = [loc EXCEPT ![r].loaded = switches,
                                    ![r].switches = Without(switches, body[r].id)]
              /\ pc' = [pc EXCEPT ![r] = "save"]
              /\ UNCHANGED resp
    [] kind[r] = "listSwitches" ->
         /\ resp' = [resp EXCEPT ![r] =
                       [status |-> 200, error |-> "", result |-> SafeSwitches(switches)]]
         /\ pc' = [pc EXCEPT ![r] = "done"]
         /\ loc' = [loc EXCEPT ![r].loaded = switches]
    [] kind[r] = "getSwitch" ->
         LET i == FindIndex(switches, body[r].id) IN
         /\ resp' = [resp EXCEPT ![r] =
                       IF i = 0
                       THEN ErrorResp(404, "Switch not found")
                       ELSE [status |-> 200, error |-> "", result |-> Masked(switches[i])]]
         /\ pc' = [pc EXCEPT ![r] = "done"]
         /\ loc' = [loc EXCEPT ![r].loaded = switches, ![r].index = i]

\* loadSwitchesConfig of routes/switches.js: readFile returns
LoadSwitchesConfig(r) ==
  /\ pc[r] = "load"
  /\ kind[r] \in InventoryRoutes \cup ReadRoutes
  /\ IF fileExists
     THEN Loaded(r, file)
     ELSE /\ pc' = [pc EXCEPT ![r] = "loadCreate"]
          /\ UNCHANGED <<loc, resp>>
  /\ UNCHANGED <<file, fileExists, swLog, clock, kind, body, sent, writes, ui, wizard>>

\* loadSwitchesConfig after ENOENT: the file is created with an empty list
\* and the empty list returned
LoadSwitchesConfigCreate(r) ==
  /\ pc[r] = "loadCreate"
  /\ file' = WriteFile(file, <<>>)
  /\ fileExists' = TRUE
  /\ writes' = [writes EXCEPT ![r] = @ + 1]
  /\ Loaded(r, <<>>)
  /\ UNCHANGED <<swLog, clock, kind, body, sent, ui, wizard>>

\* saveSwitchesConfig: writeFile returns and the handler responds
SaveSwitchesConfig(r) ==
  /\ pc[r] = "save"
  /\ file' = WriteFile(file, loc[r].switches)
  /\ fileExists' = TRUE
  /\ writes' = [writes EXCEPT ![r] = @ + 1]
  /\ resp' = [resp EXCEPT ![r] =
       CASE kind[r] = "addSwitch" ->
              [status |-> 201, error |-> "", result |-> Masked(loc[r].newSwitch)]
         [] kind[r] = "updateSwitch" ->
              [status |-> 200, error |-> "", result |-> Masked(loc[r].switches[loc[r].index])]
         [] kind[r] = "deleteSwitch" ->
              [status |-> 200, error |-> "", result |-> [success |-> TRUE, id |-> body[r].id]]]
  /\ pc' = [pc EXCEPT ![r] = "done"]
  /\ UNCHANGED <<swLog, clock, kind, body, loc, sent, ui, wizard>>

----------------------------------------------------------------------------
\* The Add Switch dialog (components/AddSwitchDialog.tsx).  Its React state
\* is the record ui; calls is the list of the calls it made to SwitchesAPI,
\* each with the render's formData it closed over and the reply it got.

backendVars == <<file, fileExists, swLog, clock, pc, kind, body, loc, resp, sent, writes>>

EmptyForm == [hostname |-> "", mgmtIP |-> "", username |-> "", password |-> "", model |-> ""]

\* the useState initial values; switchInfo is <<>> for null
AddSwitchDialog ==
  [formData |-> EmptyForm, isConnecting |-> FALSE, connectionStatus |-> "idle",
   connectionError |-> "", switchInfo |-> <<>>, calls |-> <<>>]

\* what SwitchesAPI.testConnection resolves to, or that it rejects
TestResults == {"connected", "notConnected", "rejected"}

\* handleInputChange: the inputs are never disabled
handleInputChange(field, value) ==
  /\ ui' = IF ui.connectionStatus # "idle"
           THEN [ui EXCEPT !.formData[field] = value,
                           !.connectionStatus = "idle",
                           !.switchInfo = <<>>,
                           !.connectionError = ""]
           ELSE [ui EXCEPT !.formData[field] = value]
  /\ UNCHANGED <<backendVars, wizard>>

RequiredFilled(form) ==
  form.hostname # "" /\ form.mgmtIP # "" /\ form.username # "" /\ form.password # ""

\* testConnection up to its await; the button is disabled while isConnecting
\* or while a required field is empty
testConnection ==
  /\ ~ui.isConnecting
  /\ RequiredFilled(ui.formData)
  /\ Len(ui.calls) < MaxCalls
  /\ ui' = [ui EXCEPT !.isConnecting = TRUE,
                      !.connectionStatus = "testing",
                      !.connectionError = "",
                      !.calls = Append(@, [api |-> "testConnection",
                                           formData |-> ui.formData,
                                           data |-> [hostname |-> ui.formData.hostname,
                                                     mgmtIP |-> ui.formData.mgmtIP,
                                                     username |-> ui.formData.username,
                                                     password |-> ui.formData.password,
                                                     model |-> ""],
                                           reply |-> "pending"])]
  /\ UNCHANGED <<backendVars, wizard>>

\* testConnection after its await: the continuation uses the formData of the
\* render in which the button was clicked
testConnectionReturns(i, result) ==
  /\ i \in DOMAIN ui.calls
  /\ ui.calls[i].api = "testConnection"
  /\ ui.calls[i].reply = "pending"
  /\ result \in TestResults
  /\ LET form == ui.calls[i].formData IN
     ui' = CASE result = "connected" ->
                  [ui EXCEPT !.switchInfo = <<[hostname |-> form.hostname,
                                               mgmtIP |-> form.mgmtIP,
                                               model |-> Or(VersionInfo.modelName, form.model),
                                               eosVersion |-> VersionInfo.version,
                                               uptime |-> Or(VersionInfo.uptime, "Unknown")]>>,
                             !.connectionStatus = "success",
                             !.isConnecting = FALSE,
                             !.calls[i].reply = result]
             [] result = "notConnected" ->
                  [ui EXCEPT !.connectionStatus = "failed",
                             !.connectionError = "Failed to connect to switch",
                             !.isConnecting = FALSE,
                             !.calls[i].reply = result]
             [] result = "rejected" ->
                  [ui EXCEPT !.connectionStatus = "failed",
                             !.connectionError = "API Error",
                             !.isConnecting = FALSE,
                             !.calls[i].reply = result]
  /\ UNCHANGED <<backendVars, wizard>>

\* handleSave up to its await; the button is disabled unless the status is
\* "success"
handleSave ==
  /\ ui.connectionStatus = "success"
  /\ ui.switchInfo # <<>>
  /\ Len(ui.calls) < MaxCalls
  /\ ui' = [ui EXCEPT !.isConnecting = TRUE,
                      !.calls = Append(@, [api |-> "addSwitch",
                                           formData |-> ui.formData,
                                           data |-> [hostname |-> ui.formData.hostname,
                                                     mgmtIP |-> ui.formData.mgmtIP,
                                                     username |-> ui.formData.username,
                                                     password |-> ui.formData.password,
                                                     model |-> Or(ui.formData.model,
                                                                  ui.switchInfo[1].model)],
                                           reply |-> "pending"])]
  /\ UNCHANGED <<backendVars, wizard>>

\* handleSave after its await: the form is reset when the switch was added
handleSaveReturns(i, added) ==
  /\ i \in DOMAIN ui.calls
  /\ ui.calls[i].api = "addSwitch"
  /\ ui.calls[i].reply = "pending"
  /\ ui' = IF added
           THEN [ui EXCEPT !.formData = EmptyForm,
                           !.connectionStatus = "idle",
                           !.switchInfo = <<>>,
                           !.connectionError = "",
                           !.isConnecting = FALSE,
                           !.calls[i].reply = "added"]
           ELSE [ui EXCEPT !.isConnecting = FALSE,
                           !.calls[i].reply = "rejected"]
  /\ UNCHANGED <<backendVars, wizard>>

----------------------------------------------------------------------------
\* The Tunnel Wizard (components/TunnelWizard.tsx).  Its React state is the
\* record wizard.  interfacesA and interfacesB tell whether the interface
\* list of the side is non-empty; fetching holds the sides whose interface
\* fetch is pending; creates and settled count the createTunnel calls made
\* and the ones whose reply was handled; timer is the pending setTimeout.

EmptyTunnelConfig ==
  [switchA |-> 0, switchB |-> 0, vni |-> <<>>, vtepA |-> "", vtepB |-> "",
   sourceInterfaceA |-> "", sourceInterfaceB |-> ""]

TunnelWizard ==
  [step |-> 1, tunnelConfig |-> EmptyTunnelConfig, isCreating |-> FALSE, progress |-> 0,
   commitStatus |-> "idle", interfacesA |-> FALSE, interfacesB |-> FALSE, fetching |-> {},
   tunnelData |-> <<>>, creates |-> 0, settled |-> 0, timer |-> "none"]

wizardFrame == <<file, fileExists, swLog, clock, pc, kind, body, loc, resp, sent, writes, ui>>

\* GET /api/tunnels/switches as loaded at mount: the connected switches
availableSwitches ==
  {LoadSwitchesConfigRO[i].id :
     i \in {j \in DOMAIN LoadSwitchesConfigRO : LoadSwitchesConfigRO[j].status = "connected"}}

\* the items of the Switch B selector
SwitchBItems == {sw \in availableSwitches : sw # wizard.tunnelConfig.switchA}

\* onValueChange of the Switch A selector, which offers every switch
selectSwitchA(value) ==
  /\ wizard.step = 1
  /\ value \in availableSwitches
  /\ wizard' = [wizard EXCEPT !.tunnelConfig.switchA = value, !.fetching = @ \cup {"A"}]
  /\ UNCHANGED wizardFrame

\* onValueChange of the Switch B selector
selectSwitchB(value) ==
  /\ wizard.step = 1
  /\ value \in SwitchBItems
  /\ wizard' = [wizard EXCEPT !.tunnelConfig.switchB = value, !.fetching = @ \cup {"B"}]
  /\ UNCHANGED wizardFrame

\* fetchSwitchInterfaces settles: the list is stored, or the error toasted
fetchSwitchInterfacesReturns(side, loaded) ==
  /\ side \in wizard.fetching
  /\ wizard' = [wizard EXCEPT !.fetching = @ \ {side},
                              !.interfacesA = IF side = "A" /\ loaded THEN TRUE ELSE @,
                              !.interfacesB = IF side = "B" /\ loaded THEN TRUE ELSE @]
  /\ UNCHANGED wizardFrame

\* the inputs of step 2; an interface selector is disabled without a list
WizardFields == {"vni", "vtepA", "vtepB", "sourceInterfaceA", "sourceInterfaceB"}

WizardValue(field) ==
  CASE field = "vni" -> <<"2", "0", "0", "0", "1">>
    [] field = "vtepA" -> "1.1.1.1"
    [] field = "vtepB" -> "2.2.2.2"
    [] field = "sourceInterfaceA" -> "Loopback0"
    [] field = "sourceInterfaceB" -> "Loopback0"

setTunnelConfig(field) ==
  /\ wizard.step = 2
  /\ field \in WizardFields
  /\ field = "sourceInterfaceA" => wizard.tunnelConfig.switchA # 0 /\ wizard.interfacesA
  /\ field = "sourceInterfaceB" => wizard.tunnelConfig.switchB # 0 /\ wizard.interfacesB
  /\ wizard' = [wizard EXCEPT !.tunnelConfig[field] = WizardValue(field)]
  /\ UNCHANGED wizardFrame

\* the Next button of step 1
nextFromSwitches ==
  /\ wizard.step = 1
  /\ wizard.tunnelConfig.switchA # 0 /\ wizard.tunnelConfig.switchB # 0
  /\ wizard' = [wizard EXCEPT !.step = 2]
  /\ UNCHANGED wizardFrame

\* the Next button of step 2 (the preview it fetches is display only)
nextFromParameters ==
  /\ wizard.step = 2
  /\ wizard.tunnelConfig.vni # <<>>
  /\ wizard.tunnelConfig.vtepA # "" /\ wizard.tunnelConfig.vtepB # ""
  /\ wizard.tunnelConfig.sourceInterfaceA # "" /\ wizard.tunnelConfig.sourceInterfaceB # ""
  /\ wizard' = [wizard EXCEPT !.step = 3]
  /\ UNCHANGED wizardFrame

\* the Back buttons of steps 2 and 3
backStep ==
  /\ wizard.step \in {2, 3}
  /\ wizard.step = 3 => ~wizard.isCreating
  /\ wizard' = [wizard EXCEPT !.step = @ - 1]
  /\ UNCHANGED wizardFrame

\* a number in a JSON body: NaN is sent as null, which fails `!vni` as a
\* missing field does
JsonNumber(p) == IF p.nan THEN Undef ELSE Num(p.n)

\* tunnelData of handleCreateTunnel as the backend destructures it: the
\* object has no vlan
TunnelData(tunnelConfig) ==
  [switchA |-> tunnelConfig.switchA, switchB |-> tunnelConfig.switchB,
   vni |-> JsonNumber(ParseIntStr(tunnelConfig.vni)), vlan |-> Undef,
   sourceInterfaceA |-> tunnelConfig.sourceInterfaceA,
   sourceInterfaceB |-> tunnelConfig.sourceInterfaceB,
   vtepA |-> tunnelConfig.vtepA, vtepB |-> tunnelConfig.vtepB]

\* the Create Tunnel button: handleCreateTunnel up to the fetch of
\* TunnelsAPI.createTunnel
handleCreateTunnel ==
  /\ wizard.step = 3
  /\ ~wizard.isCreating
  /\ wizard.creates < MaxCalls
  /\ wizard' = [wizard EXCEPT !.isCreating = TRUE, !.progress = 80,
                              !.commitStatus = "committing",
                              !.tunnelData = <<TunnelData(wizard.tunnelConfig)>>,
                              !.creates = @ + 1]
  /\ UNCHANGED wizardFrame

\* the requests that came from the wizard, which alone sends the source
\* interfaces
WizardRequests == {r \in Req : ~Idle(r) /\ "sourceInterfaceA" \in DOMAIN body[r]}

\* the wizard's request reaches the backend
WizardCreateArrives(r) ==
  /\ Cardinality(WizardRequests) < wizard.creates
  /\ CreateReceive(r, wizard.tunnelData[1])

\* result.success of a reply body
ResultSuccess(result) == "success" \in DOMAIN result /\ result.success

\* apiRequest returned (the status was 2xx) and result.success is truthy
ReplySucceeds(reply) ==
  reply.status \in 200..299 /\ ResultSuccess(reply.result)

\* createTunnel settles: apiRequest throws unless the status is 2xx, and
\* handleCreateTunnel throws unless result.success
handleCreateTunnelReturns(r) ==
  /\ wizard.settled < wizard.creates
  /\ r \in WizardRequests
  /\ Cardinality({q \in WizardRequests : q < r}) = wizard.settled
  /\ Done(r)
  /\ wizard' = IF ReplySucceeds(resp[r])
                THEN [wizard EXCEPT !.progress = 100, !.commitStatus = "success",
                                    !.settled = @ + 1, !.timer = "success"]
                ELSE [wizard EXCEPT !.commitStatus = "failed",
                                    !.settled = @ + 1, !.timer = "failed"]
  /\ UNCHANGED wizardFrame

\* the setTimeout callback, two seconds after the reply
resetTimer ==
  /\ wizard.timer # "none"
  /\ wizard' = IF wizard.timer = "success"
                THEN [wizard EXCEPT !.isCreating = FALSE, !.step = 1,
                                    !.tunnelConfig = EmptyTunnelConfig,
                                    !.commitStatus = "idle", !.progress = 0, !.timer = "none"]
                ELSE [wizard EXCEPT !.isCreating = FALSE, !.commitStatus = "idle",
                                    !.timer = "none"]
  /\ UNCHANGED wizardFrame

----------------------------------------------------------------------------
\* Tunnel creation: NReq requests against an inventory of two switches

TunnelBase ==
  [switchA |-> 1, switchB |-> 2, vni |-> Num(10010), vlan |-> Num(10),
   vtepA |-> "1.1.1.1", vtepB |-> "2.2.2.2"]

\* request bodies: both orders of the two switches, an unknown switch on
\* either side, and a missing field
TunnelBodies ==
  { TunnelBase,
    [TunnelBase EXCEPT !.switchA = 2, !.switchB = 1, !.vtepA = "2.2.2.2", !.vtepB = "1.1.1.1"],
    [TunnelBase EXCEPT !.switchA = 9],
    [TunnelBase EXCEPT !.switchB = 9],
    [TunnelBase EXCEPT !.vlan = Undef] }

InitCommon ==
  /\ swLog = [h \in Hosts |-> <<>>]
  /\ clock = 3
  /\ pc = [r \in Req |-> "idle"]
  /\ kind = [r \in Req |-> "none"]
  /\ body = [r \in Req |-> NoBody]
  /\ loc = [r \in Req |-> NoLoc]
  /\ resp = [r \in Req |-> NoResp]
  /\ sent = [r \in Req |-> <<>>]
  /\ writes = [r \in Req |-> 0]
  /\ ui = AddSwitchDialog
  /\ wizard = TunnelWizard

Init ==
  /\ InitCommon
  /\ fileExists = TRUE
  /\ file = <<Sw1, Sw2>>

Next ==
  \/ \E r \in Req, b \in TunnelBodies : CreateReceive(r, b)
  \/ \E r \in Req : CreateResolveA(r)
  \/ \E r \in Req, o \in Outcomes : CreateCallA(r, o)
  \/ \E r \in Req : CreateResolveB(r)
  \/ \E r \in Req, o \in Outcomes : CreateCallB(r, o)

Spec == Init /\ [][Next]_vars

----------------------------------------------------------------------------
\* The inventory: NReq add, update and delete requests, the file present
\* with one switch or not yet created

AddBase == [hostname |-> "leaf2", mgmtIP |-> "10.0.0.2", username |-> "admin",
            password |-> "pw2", model |-> "", test |-> FALSE]

AddBodies == {AddBase, [AddBase EXCEPT !.password = ""]}

NoPatch == [id |-> 0, hostname |-> "", mgmtIP |-> "", username |-> "", password |-> "",
            status |-> ""]

UpdateBodies ==
  { [NoPatch EXCEPT !.id = 1, !.hostname = "spine1"],
    [NoPatch EXCEPT !.id = 1, !.status = "disconnected"],
    [NoPatch EXCEPT !.id = 9, !.hostname = "spine1"] }

DeleteBodies == {[id |-> 1], [id |-> 9]}

InitInv ==
  /\ InitCommon
  /\ fileExists \in BOOLEAN
  /\ file = IF fileExists THEN <<Sw1>> ELSE <<>>

NextInv ==
  \/ \E r \in Req, b \in AddBodies : AddReceive(r, b)
  \/ \E r \in Req, o \in Outcomes, t \in 1..MaxClock : AddTest(r, o, t)
  \/ \E r \in Req, b \in UpdateBodies : UpdateReceive(r, b)
  \/ \E r \in Req, b \in DeleteBodies : DeleteReceive(r, b)
  \/ \E r \in Req : LoadSwitchesConfig(r)
  \/ \E r \in Req : LoadSwitchesConfigCreate(r)
  \/ \E r \in Req : SaveSwitchesConfig(r)

SpecInv == InitInv /\ [][NextInv]_vars

----------------------------------------------------------------------------
\* One request at a time to any route, with request bodies that cover
\* missing, empty, zero, non-numeric and out-of-range values, the inventory
\* file present with two switches or not yet created

WideTunnelBodies ==
  [switchA : {0, 1, 9}, switchB : {0, 2, 9},
   vni : {Undef, Num(0), Num(10010), Str(<<"a">>)},
   vlan : {Undef, Num(0), Num(10), Num(4095)},
   vtepA : {"", "1.1.1.1"}, vtepB : {"", "2.2.2.2"}]

VlanIdValues ==
  {Undef, Num(0), Num(1), Num(4094), Num(4095), Num(-1),
   Str(<<>>), Str(<<"1", "0">>), Str(<<"0">>), Str(<<"a", "b", "c">>), Str(<<"1", "2", "a", "b", "c">>), Str(<<"0", "x", "1", "0">>), Str(<<"4", "0", "9", "5">>), Str(<<" ", "7">>)}

WideVlanCreateBodies == [switchId : {1, 9}, vlanId : VlanIdValues, name : {"", "blue"}]

WideVlanDeleteBodies ==
  [switchId : {1, 9}, vlanId : {Str(<<"1", "0">>), Str(<<"a", "b", "c">>), Str(<<"5", "0", "0", "0">>), Str(<<"-", "1">>)}]

WideVxlanBodies ==
  [switchId : {1, 9},
   vni : {Undef, Num(0), Num(1), Num(16777215), Num(16777216), Num(-5),
          Str(<<"a", "b", "c">>), Str(<<"1", "0", "0", "1", "0">>),
          Str(<<"1", "2", "a", "b", "c">>)},
   vlan : {Undef, Num(10), Num(5000)},
   sourceInterface : {"", "Loopback0"}, vtepIp : {"", "1.1.1.1"}]

WideBodies(k) ==
  CASE k = "vlanCreate" -> WideVlanCreateBodies
    [] k = "vlanDelete" -> WideVlanDeleteBodies
    [] k = "vxlanCreate" -> WideVxlanBodies
    [] k = "vlanList" -> [switchId : {1, 9}]
    [] k = "tunnelList" -> [switchId : {1, 9}]

WideAddBodies ==
  [hostname : {"", "leaf3"}, mgmtIP : {"", "10.0.0.2", "10.9.9.9"},
   username : {"", "admin"}, password : {"", "pw"}, model : {"", "DCS"},
   test : BOOLEAN]

\* patches of PUT /api/switches/:id: every subset of the five fields, for a
\* known and an unknown id
WideUpdateBodies ==
  [id : {1, 9}, hostname : {"", "spine1"}, mgmtIP : {"", "10.0.0.9"},
   username : {"", "ops"}, password : {"", "pw9"}, status : {"", "disconnected"}]

BatchItems ==
  { [vlanId |-> Num(10), name |-> "blue"],
    [vlanId |-> Num(4095), name |-> "red"],
    [vlanId |-> Undef, name |-> "green"] }

\* batches of up to two entries
WideBatchBodies ==
  [switchId : {1, 9},
   vlans : {<<>>} \cup {<<x>> : x \in BatchItems}
             \cup {<<x, y>> : x \in BatchItems, y \in BatchItems}]

InitValid ==
  /\ InitCommon
  /\ fileExists \in BOOLEAN
  /\ file = IF fileExists THEN <<Sw1, Sw2>> ELSE <<>>

NextValid ==
  \/ \E b \in WideTunnelBodies : CreateReceive(1, b)
  \/ \E b \in TunnelBodies : PreviewReceive(1, b)
  \/ CreateResolveA(1)
  \/ \E o \in Outcomes : CreateCallA(1, o)
  \/ CreateResolveB(1)
  \/ \E o \in Outcomes : CreateCallB(1, o)
  \/ \E k \in SwitchRoutes : \E b \in WideBodies(k) : SwitchRouteReceive(1, k, b)
  \/ SwitchRouteResolve(1)
  \/ \E o \in Outcomes : SwitchRouteCall(1, o)
  \/ SwitchRouteInfo(1)
  \/ \E b \in WideBatchBodies : BatchReceive(1, b)
  \/ BatchResolve(1)
  \/ \E o \in Outcomes : BatchCall(1, o)
  \/ \E b \in WideAddBodies : AddReceive(1, b)
  \/ \E o \in Outcomes, t \in 1..MaxClock : AddTest(1, o, t)
  \/ \E b \in WideUpdateBodies : UpdateReceive(1, b)
  \/ LoadSwitchesConfig(1)
  \/ LoadSwitchesConfigCreate(1)
  \/ SaveSwitchesConfig(1)

SpecValid == InitValid /\ [][NextValid]_vars

----------------------------------------------------------------------------
\* POST /api/tunnels/suggested-vnis (routes/tunnels.js)

\* the keys of vxlanInfo.vnis in a switch's answer to `show vxlan vni`
VniKeys == {<<"2", "0", "0", "0", "1">>, <<"2", "0", "0", "0", "3">>, <<"1", "0", "0", "1", "0">>}

\* what a switch holds: no vnis object, or one with some keys
VniReports == {[vnis |-> FALSE, keys |-> {}]} \cup {[vnis |-> TRUE, keys |-> K] : K \in SUBSET VniKeys}

\* a collection that adds nothing
CollectVnis_Nothing(allVnis, o, report) == allVnis

\* one turn of the for loop after runCommands settled: a throw of
\* runCommands or of the destructuring is caught and the switch skipped
CollectVnis(allVnis, o, report) ==
  IF RunCommands(o).threw \/ RunCommands(o).value = "undefined" \/ ~report.vnis
  THEN allVnis
  ELSE allVnis \cup {ParseIntStr(k) : k \in report.keys}

\* the while loop: from currentVni upwards until five are found
RECURSIVE SuggestedVnis(_, _, _)
SuggestedVnis(allVnis, currentVni, suggestedVnis) ==
  IF Len(suggestedVnis) >= 5 THEN suggestedVnis
  ELSE SuggestedVnis(allVnis, currentVni + 1,
                     IF Number(currentVni) \in allVnis THEN suggestedVnis
                     ELSE Append(suggestedVnis, currentVni))

SuggestLoc == [client |-> NoClient, switches |-> <<>>, index |-> 0, allVnis |-> {},
               reports |-> <<>>]

\* the handler up to the readFile of loadSwitchesConfig
SuggestReceive(r) ==
  /\ Arrives(r)
  /\ kind' = [kind EXCEPT ![r] = "suggestedVnis"]
  /\ body' = [body EXCEPT ![r] = NoBody]
  /\ loc' = [loc EXCEPT ![r] = SuggestLoc]
  /\ pc' = [pc EXCEPT ![r] = "suggestLoad"]
  /\ UNCHANGED <<file, fileExists, swLog, clock, resp, sent, writes, ui, wizard>>

\* the loop reaches switch i with the set allVnis: the fetch to the switch
\* is issued, or after the last switch the suggestions are sent
SuggestTurn(r, switches, i, allVnis, reports) ==
  IF i > Len(switches)
  THEN /\ resp' = [resp EXCEPT ![r] =
                     [status |-> 200, error |-> "", result |-> SuggestedVnis(allVnis, 20001, <<>>)]]
       /\ loc' = [loc EXCEPT ![r].switches = switches, ![r].index = i,
                             ![r].allVnis = allVnis, ![r].reports = reports]
       /\ pc' = [pc EXCEPT ![r] = "done"]
       /\ UNCHANGED sent
  ELSE LET client == AristaClient(switches[i].mgmtIP, switches[i].username, switches[i].password) IN
       /\ sent' = [sent EXCEPT ![r] = Append(@, Call("V", client, ShowVxlanVniCommands))]
       /\ loc' = [loc EXCEPT ![r].client = client, ![r].switches = switches, ![r].index = i,
                             ![r].allVnis = allVnis, ![r].reports = reports]
       /\ pc' = [pc EXCEPT ![r] = "suggestCall"]
       /\ UNCHANGED resp

\* loadSwitchesConfig returns and the loop starts
SuggestLoad(r) ==
  /\ pc[r] = "suggestLoad"
  /\ SuggestTurn(r, LoadSwitchesConfigRO, 1, {}, <<>>)
  /\ UNCHANGED <<file, fileExists, swLog, clock, kind, body, writes, ui, wizard>>

\* the switch of the current turn answers; the loop goes on
SuggestCall(r, o, report) ==
  /\ pc[r] = "suggestCall"
  /\ o \in OutcomesOf(loc[r].client.host)
  /\ report \in VniReports
  /\ sent[r][Len(sent[r])].reply = "pending"
  /\ LET answered == [sent EXCEPT ![r][Len(sent[r])].reply = o.reply]
         reports == Append(loc[r].reports, [reply |-> o.reply, report |-> report])
         allVnis == CollectVnis(loc[r].allVnis, o, report)
         i == loc[r].index + 1 IN
     IF i > Len(loc[r].switches)
     THEN /\ sent' = answered
          /\ resp' = [resp EXCEPT ![r] =
                        [status |-> 200, error |-> "", result |-> SuggestedVnis(allVnis, 20001, <<>>)]]
          /\ loc' = [loc EXCEPT ![r].index = i, ![r].allVnis = allVnis, ![r].reports = reports]
          /\ pc' = [pc EXCEPT ![r] = "done"]
     ELSE LET sw == loc[r].switches[i]
              client == AristaClient(sw.mgmtIP, sw.username, sw.password) IN
          /\ sent' = [answered EXCEPT ![r] = Append(@, Call("V", client, ShowVxlanVniCommands))]
          /\ loc' = [loc EXCEPT ![r].client = client, ![r].index = i,
                                ![r].allVnis = allVnis, ![r].reports = reports]
          /\ UNCHANGED <<resp, pc>>
  /\ UNCHANGED <<file, fileExists, swLog, clock, kind, body, writes, ui, wizard>>

InitSuggest ==
  /\ InitCommon
  /\ fileExists \in BOOLEAN
  /\ file \in IF fileExists THEN {<<Sw1, Sw2>>, <<Sw1>>, <<>>} ELSE {<<>>}

NextSuggest ==
  \/ SuggestReceive(1)
  \/ SuggestLoad(1)
  \/ \E o \in Outcomes, report \in VniReports : SuggestCall(1, o, report)

\* the event loop runs the continuation of a settled await, and every
\* switch settles the fetch sent to it
SpecSuggest ==
  /\ InitSuggest /\ [][NextSuggest]_vars
  /\ WF_vars(SuggestLoad(1))
  /\ WF_vars(\E o \in Outcomes, report \in VniReports : SuggestCall(1, o, report))

----------------------------------------------------------------------------
\* The Tunnel Wizard and the backend: one request to
\* POST /api/tunnels/create, from the wizard or from another client

\* what another client sends: a body naming one switch twice
SameSwitchBodies == {[TunnelBase EXCEPT !.switchB = 1]}

NextWizard ==
  \/ \E value \in {1, 2} : selectSwitchA(value)
  \/ \E value \in {1, 2} : selectSwitchB(value)
  \/ \E side \in {"A", "B"}, loaded \in BOOLEAN : fetchSwitchInterfacesReturns(side, loaded)
  \/ \E field \in WizardFields : setTunnelConfig(field)
  \/ nextFromSwitches
  \/ nextFromParameters
  \/ backStep
  \/ handleCreateTunnel
  \/ WizardCreateArrives(1)
  \/ handleCreateTunnelReturns(1)
  \/ resetTimer
  \/ \E b \in SameSwitchBodies : CreateReceive(1, b)
  \/ CreateResolveA(1)
  \/ \E o \in Outcomes : CreateCallA(1, o)
  \/ CreateResolveB(1)
  \/ \E o \in Outcomes : CreateCallB(1, o)

SpecWizard == Init /\ [][NextWizard]_vars

----------------------------------------------------------------------------
\* VLAN creation beside the deletion of switches: NReq concurrent requests
\* on an inventory of two switches

VlanBodies == {[switchId |-> 1, vlanId |-> Num(10), name |-> "blue"]}

NextVlan ==
  \/ \E r \in Req, b \in VlanBodies : SwitchRouteReceive(r, "vlanCreate", b)
  \/ \E r \in Req : SwitchRouteResolve(r)
  \/ \E r \in Req, o \in Outcomes : SwitchRouteCall(r, o)
  \/ \E r \in Req : SwitchRouteInfo(r)
  \/ \E r \in Req, b \in DeleteBodies : DeleteReceive(r, b)
  \/ \E r \in Req : LoadSwitchesConfig(r)
  \/ \E r \in Req : SaveSwitchesConfig(r)

SpecVlan == Init /\ [][NextVlan]_vars

----------------------------------------------------------------------------
\* The switches API with its read routes: NReq concurrent requests on an
\* inventory file that may not exist yet

\* the same switch stored with another password
Sw1OtherPassword == [Sw1 EXCEPT !.password = "secret"]

ReadBodies(k) == IF k = "listSwitches" THEN {[id |-> 0]} ELSE {[id |-> 1], [id |-> 9]}

ReadUpdateBodies ==
  { [NoPatch EXCEPT !.id = 1, !.hostname = "spine1"],
    [NoPatch EXCEPT !.id = 1, !.password = "pw9"],
    [NoPatch EXCEPT !.id = 9, !.hostname = "spine1"] }

InitRead ==
  /\ InitCommon
  /\ fileExists \in BOOLEAN
  /\ file \in IF fileExists THEN {<<Sw1>>, <<Sw1OtherPassword>>} ELSE {<<>>}

NextRead ==
  \/ \E r \in Req, k \in ReadRoutes : \E b \in ReadBodies(k) : ReadReceive(r, k, b)
  \/ \E r \in Req : AddReceive(r, AddBase)
  \/ \E r \in Req, o \in Outcomes, t \in 1..MaxClock : AddTest(r, o, t)
  \/ \E r \in Req, b \in ReadUpdateBodies : UpdateReceive(r, b)
  \/ \E r \in Req : LoadSwitchesConfig(r)
  \/ \E r \in Req : LoadSwitchesConfigCreate(r)
  \/ \E r \in Req : SaveSwitchesConfig(r)

SpecRead == InitRead /\ [][NextRead]_vars

----------------------------------------------------------------------------
\* A switch that never answers: the fetch of runCommands has no timeout, so
\* the call to the hung switch stays pending.  Every other continuation is
\* run by the event loop once it is ready, and the other switch answers.

HungHost == "10.0.0.2"

\* a fetch with a timeout would settle whatever the switch does
Answers_WithTimeout(host) == TRUE

\* `await fetch(this.baseUrl, fetchOptions)` settles only when the switch
\* answers
Answers(host) == host # HungHost

\* both orders of the two switches: the hung one is asked second or first
HangTunnelBodies ==
  { TunnelBase,
    [TunnelBase EXCEPT !.switchA = 2, !.switchB = 1, !.vtepA = "2.2.2.2", !.vtepB = "1.1.1.1"] }

HangVlanBodies == {[switchId |-> 1, vlanId |-> Num(10), name |-> "blue"]}

\* the steps of request r that can happen while HungHost is hung: of the
\* tunnels that name both switches, the one that asks HungHost second is
\* the only one to reach switch B, so no call to switch B is answered
StepHang(r) ==
  \/ CreateResolveA(r)
  \/ \E o \in Outcomes : pc[r] = "callA" /\ Answers(loc[r].client.host) /\ CreateCallA(r, o)
  \/ CreateResolveB(r)
  \/ SwitchRouteResolve(r)
  \/ \E o \in Outcomes : pc[r] = "call" /\ Answers(loc[r].client.host) /\ SwitchRouteCall(r, o)
  \/ SwitchRouteInfo(r)

NextHang ==
  \/ \E r \in Req, b \in HangTunnelBodies : CreateReceive(r, b)
  \/ \E r \in Req, b \in HangVlanBodies : SwitchRouteReceive(r, "vlanCreate", b)
  \/ \E r \in Req : StepHang(r)

SpecHang == Init /\ [][NextHang]_vars /\ \A r \in Req : WF_vars(StepHang(r))

----------------------------------------------------------------------------
\* The Add Switch dialog on its own: a user who types, tests and saves,
\* and a server that answers the calls in any way SwitchesAPI allows

\* what the user types into the fields
FieldValues ==
  [hostname |-> {"leaf3"}, mgmtIP |-> {"10.0.0.2", "10.9.9.9"},
   username |-> {"admin"}, password |-> {"pw"}, model |-> {"DCS"}]

InitDialog ==
  /\ InitCommon
  /\ fileExists = TRUE
  /\ file = <<Sw1, Sw2>>

NextDialog ==
  \/ \E field \in DOMAIN FieldValues : \E value \in FieldValues[field] :
       handleInputChange(field, value)
  \/ testConnection
  \/ \E i \in 1..MaxCalls, result \in TestResults : testConnectionReturns(i, result)
  \/ handleSave
  \/ \E i \in 1..MaxCalls, added \in BOOLEAN : handleSaveReturns(i, added)

SpecDialog == InitDialog /\ [][NextDialog]_vars

----------------------------------------------------------------------------
\* Properties of tunnel creation

IsCreate(r) == kind[r] = "tunnelCreate"

ThrownReplies == {"httpError", "rpcError"}
ReturnedReplies == {"result", "noResult"}

\* the request answered with a tunnel result of the given status
Answered(r, status) ==
  /\ IsCreate(r)
  /\ Done(r)
  /\ resp[r].status = 200
  /\ resp[r].result.status = status

\* resolving switch A's client threw, or switch A's batch threw
SwitchAThrew(r) ==
  /\ IsCreate(r)
  /\ \/ Done(r) /\ resp[r].status = 200 /\ sent[r] = <<>>
     \/ Len(sent[r]) >= 1 /\ sent[r][1].reply \in ThrownReplies

LastPhase(result) == result.phases[Len(result.phases)]

\* C1: if resolving switch A's client or switch A's batch throws, the
\* request answers with status "failed", the last phase is a failed one, and
\* the request issues no call in the switch B step.
C1_SwitchAFailureStops ==
  \A r \in Req :
    SwitchAThrew(r) =>
      /\ Answered(r, "failed")
      /\ LastPhase(resp[r].result).status = "failed"
      /\ \A i \in DOMAIN sent[r] : sent[r][i].role # "B"

\* a request whose switch A batch was sent and threw
C1_Witness ==
  \E r \in Req :
    /\ Answered(r, "failed")
    /\ Len(sent[r]) = 1
    /\ sent[r][1].role = "A"
    /\ sent[r][1].reply = "rpcError"

RollbackOps == {"no vlan", "no vxlan vni", "no vxlan flood vtep", "no interface vxlan 1"}

IsRollback(cmds) == \E k \in DOMAIN cmds : cmds[k].op \in RollbackOps

\* switch h holds configuration that request r applied and did not undo
HoldsConfigOf(h, r) ==
  \E i \in DOMAIN swLog[h] :
    /\ swLog[h][i].req = r
    /\ ~IsRollback(swLog[h][i].cmds)
    /\ \A j \in (i + 1)..Len(swLog[h]) :
         ~(swLog[h][j].req = r /\ IsRollback(swLog[h][j].cmds))

\* C2: after a create request ends with status "failed", no switch holds
\* configuration that the request applied (everything is rolled back).
C2_FailedIsRolledBack ==
  \A r \in Req :
    Answered(r, "failed") => \A h \in Hosts : ~HoldsConfigOf(h, r)

CompletePhases == <<[name |-> "Creating configuration sessions", status |-> "complete", progress |-> 20],
                    [name |-> "Configuring Switch A", status |-> "complete", progress |-> 50],
                    [name |-> "Configuring Switch B", status |-> "complete", progress |-> 80],
                    [name |-> "Verifying tunnel configuration", status |-> "complete", progress |-> 100]>>

\* the message of the error that made request r fail in this step
ThrownMessage(r) ==
  IF pc[r] \in {"resolveA", "resolveB"} THEN "Switch not found"
  ELSE IF sent'[r][Len(sent'[r])].reply = "httpError" THEN "HTTP Error"
  ELSE "eAPI Error"

\* request r fails in this step
FailsNow(r) ==
  /\ IsCreate(r)
  /\ ~Done(r)
  /\ pc'[r] = "done"
  /\ resp'[r].status = 200
  /\ resp'[r].result.status = "failed"

\* the phases of r before the step are kept and one failed entry follows
KeepsPhases(r) ==
  LET before == loc[r].result.phases
      after == resp'[r].result.phases
  IN /\ Len(after) = Len(before) + 1
     /\ SubSeq(after, 1, Len(before)) = before
     /\ before = SubSeq(CompletePhases, 1, Len(before))
     /\ after[Len(after)].status = "failed"
     /\ after[Len(after)].progress = before[Len(before)].progress

\* C3 as stated: the first thrown error aborts the sequence, the phases
\* recorded before it are kept in order, exactly one failed phase entry is
\* appended, the failed entry carries the error message, and status is "failed".
C3_FailedPhaseCarriesMessage ==
  [][\A r \in Req :
       FailsNow(r) =>
         /\ KeepsPhases(r)
         /\ LastPhase(resp'[r].result).name = ThrownMessage(r)]_vars

\* C3 amended: the first thrown error aborts the sequence, the phases
\* recorded before it are kept in order, exactly one failed phase entry is
\* appended, the error message is stored in the result's errorMessage (the
\* failed entry only names the progress reached), and status is "failed".
C3_FailureKeepsPhases ==
  [][\A r \in Req :
       FailsNow(r) =>
         /\ KeepsPhases(r)
         /\ resp'[r].result.errorMessage = ThrownMessage(r)
         /\ LastPhase(resp'[r].result).name = ErrorPhaseName(loc[r].phaseProgress)]_vars

\* a request that failed at switch B after two phases were recorded
C3_Witness ==
  \E r \in Req :
    /\ Answered(r, "failed")
    /\ Len(resp[r].result.phases) = 3
    /\ resp[r].result.errorMessage = "HTTP Error"

\* switch B's step threw after switch A's batch had returned a result
SwitchBThrewAfterA(r) ==
  /\ IsCreate(r)
  /\ Len(sent[r]) >= 1
  /\ sent[r][1].reply = "result"
  /\ \/ Done(r) /\ Len(sent[r]) = 1
     \/ Len(sent[r]) = 2 /\ sent[r][2].reply \in ThrownReplies

\* C4: no compensating rollback runs: when switch A's batch succeeded and
\* switch B's step threw, the request answers "failed", it has sent no
\* rollback batch, and switch A keeps the configuration the request applied.
C4_NoCompensation ==
  \A r \in Req :
    SwitchBThrewAfterA(r) =>
      /\ Answered(r, "failed")
      /\ \A i \in DOMAIN sent[r] : ~IsRollback(sent[r][i].cmds)
      /\ HoldsConfigOf(sent[r][1].host, r)

\* the one-sided tunnel: A holds the flood VTEP of the request, B does not
C4_Witness ==
  \E r \in Req :
    /\ Answered(r, "failed")
    /\ Len(sent[r]) = 2
    /\ sent[r][2].reply \in ThrownReplies
    /\ HoldsConfigOf(sent[r][1].host, r)
    /\ ~HoldsConfigOf(sent[r][2].host, r)
    /\ sent[r][1].host # sent[r][2].host

\* C5: when both batches return, the result is "success" with exactly the
\* four complete phases in order; switch B's call is only issued, and
\* switch B's client only resolved, after switch A's batch has returned.
C5_SuccessPhases ==
  \A r \in Req :
    IsCreate(r) =>
      /\ (Len(sent[r]) = 2 /\ sent[r][1].reply \in ReturnedReplies
                           /\ sent[r][2].reply \in ReturnedReplies)
           => /\ Answered(r, "success")
              /\ resp[r].result.phases = CompletePhases
              /\ resp[r].result.errorMessage = Null
      /\ pc[r] \in {"resolveB", "callB"}
           => /\ Len(sent[r]) >= 1
              /\ sent[r][1].role = "A"
              /\ sent[r][1].reply \in ReturnedReplies
      /\ \A i \in DOMAIN sent[r] :
           sent[r][i].role = "B"
             => /\ i = 2
                /\ sent[r][1].role = "A"
                /\ sent[r][1].reply \in ReturnedReplies

\* a request that configured both switches
C5_Witness ==
  \E r \in Req :
    /\ Answered(r, "success")
    /\ Len(sent[r]) = 2
    /\ sent[r][1].reply = "result"
    /\ sent[r][2].reply = "result"

----------------------------------------------------------------------------
\* Properties of validation and of the inventory

\* a required value is absent, empty or zero
C6_Missing(v) ==
  \/ v.t = "undefined"
  \/ v.t = "number" /\ v.n = 0
  \/ v.t = "string" /\ v.s = <<>>

\* a value is not a number, or a number outside lo..hi
C6_OutOfRange(v, lo, hi) ==
  \/ ParseInt(v).nan
  \/ ParseInt(v).n < lo
  \/ ParseInt(v).n > hi

\* the request does not pass the validation of its route
C6_FailsValidation(k, b) ==
  CASE k = "addSwitch" ->
         b.hostname = "" \/ b.mgmtIP = "" \/ b.username = "" \/ b.password = ""
    [] k = "vlanCreate" ->
         C6_Missing(b.vlanId) \/ b.name = "" \/ C6_OutOfRange(b.vlanId, 1, 4094)
    [] k = "vlanDelete" -> ParseInt(b.vlanId).nan
    [] k = "vxlanCreate" ->
         \/ C6_Missing(b.vni) \/ C6_Missing(b.vlan)
         \/ b.sourceInterface = "" \/ b.vtepIp = ""
         \/ C6_OutOfRange(b.vni, 1, 16777215)
    [] k = "tunnelCreate" ->
         \/ b.switchA = 0 \/ b.switchB = 0 \/ b.vtepA = "" \/ b.vtepB = ""
         \/ C6_Missing(b.vni) \/ C6_Missing(b.vlan)

ValidatingRoutes == {"addSwitch", "vlanCreate", "vlanDelete", "vxlanCreate", "tunnelCreate"}

\* C6: input validation occurs before any remote call: a request to a
\* validating route that fails validation is answered 400, and it has
\* issued no call to any switch (and written nothing).
C6_ValidationBeforeCalls ==
  \A r \in Req :
    (kind[r] \in ValidatingRoutes /\ C6_FailsValidation(kind[r], body[r])) =>
      /\ Done(r)
      /\ resp[r].status = 400
      /\ sent[r] = <<>>
      /\ writes[r] = 0

\* a VLAN create for a known switch with vlanId 4095 was rejected
C6_Witness ==
  \E r \in Req :
    /\ kind[r] = "vlanCreate"
    /\ body[r].switchId = 1
    /\ body[r].name # ""
    /\ ~ParseInt(body[r].vlanId).nan
    /\ ParseInt(body[r].vlanId).n = 4095
    /\ Done(r)
    /\ resp[r].status = 400

IsInventoryWrite(r) == kind[r] \in InventoryRoutes

\* request r completes its saveSwitchesConfig in this step
SavesNow(r) ==
  /\ IsInventoryWrite(r)
  /\ pc[r] = "save"
  /\ pc'[r] = "done"

\* the array request r computed from the snapshot it loaded
ChangeOf(r) ==
  CASE kind[r] = "addSwitch" -> Append(loc[r].loaded, loc[r].newSwitch)
    [] kind[r] = "updateSwitch" ->
         [i \in DOMAIN loc[r].loaded |->
            IF i = loc[r].index
            THEN [loc[r].loaded[i] EXCEPT
                    !.hostname = IF body[r].hostname # "" THEN body[r].hostname ELSE @,
                    !.mgmtIP = IF body[r].mgmtIP # "" THEN body[r].mgmtIP ELSE @,
                    !.username = IF body[r].username # "" THEN body[r].username ELSE @,
                    !.password = IF body[r].password # "" THEN body[r].password ELSE @,
                    !.status = IF body[r].status # "" THEN body[r].status ELSE @]
            ELSE loc[r].loaded[i]]
    [] kind[r] = "deleteSwitch" ->
         LET NotIt(sw) == sw.id # body[r].id IN SelectSeq(loc[r].loaded, NotIt)

\* C7: no lock protects load-modify-save: a save replaces the file by what
\* the saving request computed from the snapshot it loaded, whatever other
\* requests wrote to the file in between, and the request reports success.
C7_LastWriterWins ==
  [][\A r \in Req :
       SavesNow(r) =>
         /\ file' = ChangeOf(r)
         /\ resp'[r].status \in {200, 201}]_vars

\* the lost update: two requests answered with success, the switch one of
\* them added is not in the file, and nobody deleted it
C7_Witness ==
  \E r1, r2 \in Req :
    /\ r1 # r2
    /\ kind[r1] = "addSwitch" /\ Done(r1) /\ resp[r1].status = 201
    /\ IsInventoryWrite(r2) /\ Done(r2) /\ resp[r2].status \in {200, 201}
    /\ \A r \in Req : Done(r)
    /\ \A i \in DOMAIN file : file[i].id # resp[r1].result.id
    /\ \A r \in Req : kind[r] = "deleteSwitch" => body[r].id # resp[r1].result.id

\* C8: DELETE /api/switches/:id with an id that is not in the inventory
\* answers 404 and does not write the inventory file; with an id that is
\* present it removes every entry with that id and keeps all other switches
\* unchanged and in order.
C8_DeleteUnknownWritesNothing ==
  \A r \in Req :
    (kind[r] = "deleteSwitch" /\ Done(r)) =>
      /\ (\A i \in DOMAIN loc[r].loaded : loc[r].loaded[i].id # body[r].id)
           => resp[r].status = 404 /\ writes[r] = 0
      /\ (\E i \in DOMAIN loc[r].loaded : loc[r].loaded[i].id = body[r].id)
           => /\ resp[r].status = 200
              /\ writes[r] = 1
              /\ LET NotIt(sw) == sw.id # body[r].id
                 IN loc[r].switches = SelectSeq(loc[r].loaded, NotIt)

\* C9: POST /api/switches with a missing or empty hostname, mgmtIP,
\* username or password answers 400 and leaves the inventory unchanged.
C9_MissingFieldRejected ==
  [][\A r \in Req :
       (/\ kind'[r] = "addSwitch"
        /\ \/ body'[r].hostname = "" \/ body'[r].mgmtIP = ""
           \/ body'[r].username = "" \/ body'[r].password = "")
       => /\ pc'[r] = "done"
          /\ resp'[r].status = 400
          /\ writes'[r] = 0
          /\ sent'[r] = <<>>
          /\ file' = file
          /\ fileExists' = fileExists]_vars

\* an add request that lacks only the password was rejected
C9_Witness ==
  \E r \in Req :
    /\ kind[r] = "addSwitch"
    /\ body[r].password = ""
    /\ body[r].hostname # "" /\ body[r].mgmtIP # "" /\ body[r].username # ""
    /\ Done(r)
    /\ resp[r].status = 400

\* the connection test of add request r reported connected for the
\* submitted address and credentials
TestedConnected(r) ==
  /\ Len(sent[r]) = 1
  /\ sent[r][1].host = body[r].mgmtIP
  /\ sent[r][1].username = body[r].username
  /\ sent[r][1].password = body[r].password
  /\ sent[r][1].cmds[1].op = "show version"
  /\ sent[r][1].reply = "result"

\* C10: adding a switch tests connectivity first: an add request loads or
\* writes the inventory only after its connection test reported connected,
\* every switch that enters the file comes from such a request, and a test
\* that reports not connected gives 400 and no write.
C10_TestBeforeAdd ==
  /\ \A r \in Req :
       kind[r] = "addSwitch" =>
         /\ (pc[r] \in {"load", "loadCreate", "save"} \/ writes[r] > 0
               \/ (Done(r) /\ resp[r].status = 201))
              => TestedConnected(r)
         /\ (Len(sent[r]) = 1 /\ sent[r][1].reply \in {"httpError", "rpcError", "noResult"})
              => /\ Done(r)
                 /\ resp[r].status = 400
                 /\ writes[r] = 0
  /\ \A i \in DOMAIN file :
       file[i].id # Sw1.id =>
         \E r \in Req :
           /\ kind[r] = "addSwitch"
           /\ TestedConnected(r)
           /\ file[i].id = loc[r].newSwitch.id
           /\ file[i].mgmtIP = body[r].mgmtIP

\* a tested switch was appended to the inventory
C10_Witness ==
  \E r \in Req :
    /\ kind[r] = "addSwitch"
    /\ Done(r)
    /\ resp[r].status = 201
    /\ TestedConnected(r)
    /\ \E i \in DOMAIN file : file[i] = loc[r].newSwitch

----------------------------------------------------------------------------
\* Properties of PUT /api/switches/:id

PatchFields == {"hostname", "mgmtIP", "username", "password", "status"}
SwitchFields == {"id", "hostname", "mgmtIP", "username", "password", "model",
                 "eosVersion", "uptime", "status"}

\* an update of a known id: the first entry with the id takes the non-empty
\* patch fields, everything else is as in the loaded array
C11_MergedIntoSnapshot(r) ==
  LET old == loc[r].loaded
      new == loc[r].switches
      k == loc[r].index
  IN /\ Len(new) = Len(old)
     /\ k \in DOMAIN old
     /\ old[k].id = body[r].id
     /\ \A i \in DOMAIN old : i # k => new[i] = old[i]
     /\ \A f \in SwitchFields :
          new[k][f] = IF f \in PatchFields /\ body[r][f] # "" THEN body[r][f] ELSE old[k][f]

\* the part of C11 about a known id
C11_KnownIdMerged ==
  \A r \in Req :
    (/\ kind[r] = "updateSwitch"
     /\ Done(r)
     /\ \E i \in DOMAIN loc[r].loaded : loc[r].loaded[i].id = body[r].id)
    => /\ resp[r].status = 200
       /\ writes[r] = 1
       /\ C11_MergedIntoSnapshot(r)

\* C11: PUT /api/switches/:id is a shallow merge: for a known id each
\* non-empty field among hostname, mgmtIP, username, password, status
\* replaces the stored value, every other field of that switch keeps its
\* value and all other switches are unchanged; for an unknown id the request
\* answers 404 and writes nothing.
C11_UpdateIsShallowMerge ==
  /\ C11_KnownIdMerged
  /\ \A r \in Req :
       (/\ kind[r] = "updateSwitch"
        /\ Done(r)
        /\ \A i \in DOMAIN loc[r].loaded : loc[r].loaded[i].id # body[r].id)
       => /\ resp[r].status = 404
          /\ writes[r] = 0

----------------------------------------------------------------------------
\* Properties of the VLAN id and VNI checks

\* every character of s from i on is a digit
AllDigitsFrom(s, i) == \A j \in i..Len(s) : IsDigit(s[j])
AllHexFrom(s, i) == \A j \in i..Len(s) : IsHex(s[j])

\* the number a request value denotes: a number is itself, a string denotes
\* a number only when the whole of it (after leading blanks) is a numeral
NumberOf(v) ==
  CASE v.t = "undefined" -> NaN
    [] v.t = "number" -> Number(v.n)
    [] v.t = "string" ->
         LET s == v.s
             i == SkipSpace(s, 1)
             neg == i <= Len(s) /\ s[i] = "-"
             j == IF i <= Len(s) /\ s[i] \in {"-", "+"} THEN i + 1 ELSE i
             hex == j + 1 <= Len(s) /\ s[j] = "0" /\ s[j + 1] \in {"x", "X"}
         IN IF hex
            THEN IF j + 2 <= Len(s) /\ AllHexFrom(s, j + 2)
                 THEN Number(HexRun(s, j + 2, 0)) ELSE NaN
            ELSE IF j <= Len(s) /\ AllDigitsFrom(s, j)
                 THEN Number(IF neg THEN 0 - DecRun(s, j, 0) ELSE DecRun(s, j, 0))
                 ELSE NaN

\* v is not a number in lo..hi
NotInRange(v, lo, hi) ==
  NumberOf(v).nan \/ NumberOf(v).n < lo \/ NumberOf(v).n > hi

\* C12: POST /api/vlans/:switchId rejects any vlanId that is non-numeric or
\* outside 1..4094 with 400, and createVlan is never invoked for such a
\* request.
C12_RejectsInvalidVlanId ==
  \A r \in Req :
    (kind[r] = "vlanCreate" /\ NotInRange(body[r].vlanId, 1, 4094)) =>
      /\ Done(r)
      /\ resp[r].status = 400
      /\ sent[r] = <<>>

\* C13: POST /api/vxlans/:switchId rejects any vni that is non-numeric or
\* outside 1..16777215 with 400, and configureVxlan is never invoked for
\* such a request.
C13_RejectsInvalidVni ==
  \A r \in Req :
    (kind[r] = "vxlanCreate" /\ NotInRange(body[r].vni, 1, 16777215)) =>
      /\ Done(r)
      /\ resp[r].status = 400
      /\ sent[r] = <<>>

\* the VLAN ids and the VNIs that a command batch configures
VlanIdsOf(cmds) ==
  {cmds[k].a : k \in {j \in DOMAIN cmds : cmds[j].op \in {"vlan", "vxlan vlan _ vni _"}}}
    \cup {cmds[k].b : k \in {j \in DOMAIN cmds : cmds[j].op = "vxlan vni _ vlan _"}}

VnisOf(cmds) ==
  {cmds[k].a : k \in {j \in DOMAIN cmds : cmds[j].op = "vxlan vni _ vlan _"}}
    \cup {cmds[k].b : k \in {j \in DOMAIN cmds : cmds[j].op = "vxlan vlan _ vni _"}}

ConfiguringRoutes == {"vlanCreate", "vlanBatch", "vxlanCreate", "tunnelCreate"}

\* C14: across single VLAN create, batch VLAN create, VXLAN create and
\* tunnel create, every VLAN id placed in a configuration command sent to a
\* switch is in 1..4094 and every VNI is in 1..16777215.
C14_SentIdsInRange ==
  \A r \in Req :
    kind[r] \in ConfiguringRoutes =>
      \A i \in DOMAIN sent[r] :
        /\ \A v \in VlanIdsOf(sent[r][i].cmds) : ~NotInRange(Str(v), 1, 4094)
        /\ \A v \in VnisOf(sent[r][i].cmds) : ~NotInRange(Str(v), 1, 16777215)

----------------------------------------------------------------------------
\* Properties of error handling

\* no switch of the inventory has this id
UnknownSwitch(id) == ~fileExists \/ \A i \in DOMAIN file : file[i].id # id

\* request r takes a step in which getSwitchClient throws
ResolveThrowsNow(r) ==
  /\ pc'[r] # pc[r]
  /\ \/ pc[r] = "resolveA" /\ UnknownSwitch(body[r].switchA)
     \/ pc[r] = "resolveB" /\ UnknownSwitch(body[r].switchB)
     \/ pc[r] \in {"resolve", "batchResolve"} /\ UnknownSwitch(body[r].switchId)

\* request r takes a step in which the switch call it awaits throws
CallThrowsNow(r) ==
  /\ pc[r] \in {"callA", "callB", "call", "batchCall", "test"}
  /\ sent'[r] # sent[r]
  /\ sent'[r][Len(sent[r])].reply \in ThrownReplies

\* the message of the error thrown in this step
MessageNow(r) ==
  IF ResolveThrowsNow(r) THEN "Switch not found"
  ELSE IF sent'[r][Len(sent[r])].reply = "httpError" THEN "HTTP Error"
  ELSE "eAPI Error"

\* C15 as stated: every route handler responds with HTTP 500 and body
\* {error: message} whenever an error is thrown while handling the request,
\* including an error thrown by a switch call or an unknown switch id during
\* POST /api/tunnels/create.
C15_ThrownErrorGives500 ==
  [][\A r \in Req :
       (ResolveThrowsNow(r) \/ CallThrowsNow(r)) =>
         /\ pc'[r] = "done"
         /\ resp'[r].status = 500
         /\ resp'[r].error = MessageNow(r)]_vars

\* C15 amended: an error that reaches the outer catch of a handler gives
\* HTTP 500 with body {error: message}: an unknown switch id or a throwing
\* switch call in the VLAN list, create and delete routes and the VXLAN
\* create route, and an unknown switch id in the batch route.  POST
\* /api/tunnels/create catches both in its inner try and answers 200 with a
\* result of status "failed" whose errorMessage is the message; the batch
\* route records a throwing createVlan as a failed entry and sends no error
\* response; POST /api/switches answers 400 when the connection test throws.
C15_ErrorResponses ==
  [][\A r \in Req :
       (ResolveThrowsNow(r) \/ CallThrowsNow(r)) =>
         CASE kind[r] \in SwitchRoutes \/ (kind[r] = "vlanBatch" /\ ResolveThrowsNow(r)) ->
                /\ pc'[r] = "done"
                /\ resp'[r].status = 500
                /\ resp'[r].error = MessageNow(r)
           [] kind[r] = "tunnelCreate" ->
                /\ pc'[r] = "done"
                /\ resp'[r].status = 200
                /\ resp'[r].result.status = "failed"
                /\ resp'[r].result.errorMessage = MessageNow(r)
           [] kind[r] = "vlanBatch" /\ ~ResolveThrowsNow(r) ->
                /\ resp'[r].status \in {0, 200}
                /\ LET res == loc'[r].results
                   IN \E k \in DOMAIN res : ~res[k].success /\ res[k].error = MessageNow(r)
           [] kind[r] = "addSwitch" ->
                /\ pc'[r] = "done"
                /\ resp'[r].status = 400
                /\ resp'[r].error = "Failed to connect to switch"
                /\ writes'[r] = 0]_vars

\* a VLAN create whose switch call threw was answered 500 with the message
C15_Witness ==
  \E r \in Req :
    /\ kind[r] = "vlanCreate"
    /\ Done(r)
    /\ Len(sent[r]) = 1
    /\ sent[r][1].reply = "rpcError"
    /\ resp[r].status = 500
    /\ resp[r].error = "eAPI Error"

FailureReplies == {"httpError", "rpcError", "noResult"}

\* C16: runCommands surfaces a non-OK HTTP response, a JSON-RPC error and a
\* response without a result as thrown errors, and in none of these cases
\* does tunnel creation proceed as if the batch had succeeded: the failed
\* call is the last one the request sends and the request ends "failed".
C16_FailuresAreThrown ==
  \A r \in Req :
    IsCreate(r) =>
      \A i \in DOMAIN sent[r] :
        sent[r][i].reply \in FailureReplies =>
          /\ RunCommands([reply |-> sent[r][i].reply, applied |-> FALSE]).threw
          /\ i = Len(sent[r])
          /\ Answered(r, "failed")

----------------------------------------------------------------------------
\* Properties of the tunnel routes and the inventory file

TunnelRoutes == {"tunnelCreate", "tunnelPreview", "tunnelList"}

\* C17: tunnels are never stored: no step of POST /api/tunnels/create, POST
\* /api/tunnels/preview or GET /api/tunnels/:switchId writes or changes the
\* switch inventory file (or creates it when it is missing), whatever the
\* outcome.
C17_TunnelRoutesNeverWrite ==
  [][\A r \in Req :
       (kind'[r] \in TunnelRoutes /\ pc'[r] # pc[r]) =>
         /\ file' = file
         /\ fileExists' = fileExists
         /\ writes'[r] = 0]_vars

\* a tunnel creation ran to its answer while the inventory file was missing
C17_Witness ==
  \E r \in Req :
    /\ IsCreate(r)
    /\ Done(r)
    /\ resp[r].status = 200
    /\ ~fileExists
    /\ writes[r] = 0

----------------------------------------------------------------------------
\* Properties of the Add Switch dialog

\* the values that a connection test covers
TestedValues(data) ==
  [hostname |-> data.hostname, mgmtIP |-> data.mgmtIP,
   username |-> data.username, password |-> data.password]

----------------------------------------------------------------------------
\* Properties of POST /api/switches with test: true

\* C19: POST /api/switches with test: true tests the connection: it answers
\* with a result that carries a connected flag and does not add a switch to
\* the inventory (it neither loads nor writes the inventory file).
C19_TestDoesNotAdd ==
  \A r \in Req :
    (kind[r] = "addSwitch" /\ body[r].test) =>
      /\ pc[r] \notin {"load", "loadCreate", "save"}
      /\ writes[r] = 0
      /\ (Done(r) /\ resp[r].status \in {200, 201})
           => "connected" \in DOMAIN resp[r].result

----------------------------------------------------------------------------
\* Properties of the two command batches of a tunnel

\* the flood VTEPs that a command batch configures
FloodVtepsOf(cmds) ==
  {cmds[k].text : k \in {j \in DOMAIN cmds : cmds[j].op = "vxlan flood vtep"}}

\* the batch configures exactly this VNI and this VLAN id
CarriesVniAndVlan(cmds, vni, vlan) ==
  /\ VnisOf(cmds) # {}
  /\ VlanIdsOf(cmds) # {}
  /\ \A v \in VnisOf(cmds) : NumberOf(Str(v)) = NumberOf(vni)
  /\ \A v \in VlanIdsOf(cmds) : NumberOf(Str(v)) = NumberOf(vlan)

\* the two batches differ in the flood VTEP command at most
SameButFloodVtep(cmdsA, cmdsB) ==
  /\ Len(cmdsA) = Len(cmdsB)
  /\ \A k \in DOMAIN cmdsA :
       \/ cmdsA[k] = cmdsB[k]
       \/ cmdsA[k].op = "vxlan flood vtep" /\ cmdsB[k].op = "vxlan flood vtep"

\* C20: in tunnel creation the batch sent to switch A has flood VTEP vtepB
\* and the batch sent to switch B has flood VTEP vtepA; both batches carry
\* the VNI and the VLAN of the request and are otherwise identical.
C20_MirroredBatches ==
  \A r \in Req :
    IsCreate(r) =>
      /\ \A i \in DOMAIN sent[r] :
           /\ sent[r][i].role = "A" => FloodVtepsOf(sent[r][i].cmds) = {body[r].vtepB}
           /\ sent[r][i].role = "B" => FloodVtepsOf(sent[r][i].cmds) = {body[r].vtepA}
           /\ CarriesVniAndVlan(sent[r][i].cmds, body[r].vni, body[r].vlan)
      /\ Len(sent[r]) = 2 => SameButFloodVtep(sent[r][1].cmds, sent[r][2].cmds)

\* both batches of a request were sent and they differ
C20_Witness ==
  \E r \in Req :
    /\ IsCreate(r)
    /\ Len(sent[r]) = 2
    /\ sent[r][1].role = "A"
    /\ sent[r][2].role = "B"
    /\ body[r].vtepA # body[r].vtepB
    /\ sent[r][1].cmds # sent[r][2].cmds

----------------------------------------------------------------------------
\* Properties of a hung switch

\* request r awaits a call to the switch that never answers
WaitsOnHung(r) ==
  /\ pc[r] \in {"callA", "callB", "call"}
  /\ loc[r].client.host = HungHost

\* C21: no timeout exists on outbound switch calls: a request that awaits a
\* call to a switch that never answers stays in that await and never sends a
\* response, while every other request that has arrived completes unless it
\* comes to wait on that switch itself.
C21_HungCallStallsOnlyItsRequest ==
  /\ [][\A r \in Req :
          WaitsOnHung(r) => /\ pc'[r] = pc[r]
                            /\ resp'[r].status = 0]_vars
  /\ \A r \in Req : (~Idle(r)) ~> (Done(r) \/ WaitsOnHung(r))

\* one request is stalled on the hung switch and a later request to the
\* other switch has completed
C21_Witness ==
  \E r1, r2 \in Req :
    /\ r1 < r2
    /\ WaitsOnHung(r1)
    /\ Done(r2)
    /\ kind[r2] = "vlanCreate"
    /\ resp[r2].status = 201

----------------------------------------------------------------------------
\* Concurrent tunnel creations

\* the next step of create request r
CreateStep(r) ==
  \/ CreateResolveA(r)
  \/ \E o \in Outcomes : CreateCallA(r, o)
  \/ CreateResolveB(r)
  \/ \E o \in Outcomes : CreateCallB(r, o)

InFlight(r) == IsCreate(r) /\ ~Done(r)

\* the request whose batch switch h applied last
LastApplied(h) == swLog[h][Len(swLog[h])].req

\* C22: tunnel creations are not serialised: a create request in flight is
\* never held back by another one, whatever switches that one names, so the
\* batches of two requests can reach the two switches in opposite orders.
C22_CreatesNotSerialised ==
  \A r \in Req : InFlight(r) => ENABLED CreateStep(r)

\* two creates naming the same two switches both answered "success", each
\* switch applied a batch of each, and the last batch applied on one switch is the first request's while the
\* last batch on the other switch is the second request's
C22_Witness ==
  \E r1, r2 \in Req :
    /\ r1 # r2
    /\ Answered(r1, "success") /\ Answered(r2, "success")
    /\ {body[r1].switchA, body[r1].switchB} = {body[r2].switchA, body[r2].switchB}
    /\ \A h \in Hosts : {swLog[h][i].req : i \in DOMAIN swLog[h]} = {r1, r2}
    /\ LastApplied("10.0.0.1") = r1
    /\ LastApplied("10.0.0.2") = r2

----------------------------------------------------------------------------
\* Stored passwords and the switches API

MaskingRoutes == {"listSwitches", "getSwitch", "addSwitch", "updateSwitch"}

\* the inventory with every stored password replaced by pw
Repass(switches, pw) == [i \in DOMAIN switches |-> [switches[i] EXCEPT !.password = pw]]

OtherPasswords == {"", "pw1", "secret", "********"}

\* the switch objects of a response body
SwitchObjects(r) ==
  IF resp[r].status \notin {200, 201} THEN {}
  ELSE IF kind[r] = "listSwitches"
  THEN {resp[r].result[i] : i \in DOMAIN resp[r].result}
  ELSE {resp[r].result}

\* the success body the handler of r builds from the inventory it loaded
BodyFrom(r, switches) ==
  CASE kind[r] = "listSwitches" -> SafeSwitches(switches)
    [] kind[r] = "getSwitch" -> Masked(switches[loc[r].index])
    [] kind[r] = "updateSwitch" -> Masked(Merge(switches[loc[r].index], body[r]))
    [] kind[r] = "addSwitch" -> Masked(loc[r].newSwitch)

\* C23: every switch object in a response body of GET /api/switches,
\* GET /api/switches/:id, POST /api/switches and PUT /api/switches/:id has
\* password '********', and the body is the one the handler would have built
\* from an inventory that differs from the loaded one only in the stored
\* passwords.
C23_StoredPasswordsNeverLeave ==
  \A r \in Req :
    (Done(r) /\ kind[r] \in MaskingRoutes) =>
      /\ \A sw \in SwitchObjects(r) : sw.password = "********"
      /\ resp[r].status \in {200, 201} =>
           \A pw \in OtherPasswords : resp[r].result = BodyFrom(r, Repass(loc[r].loaded, pw))

\* a list and a single-switch route both answered from an inventory whose
\* stored password is not the mask
C23_Witness ==
  /\ \E r \in Req : Done(r) /\ kind[r] = "listSwitches" /\ resp[r].status = 200
                    /\ \E i \in DOMAIN loc[r].loaded : loc[r].loaded[i].password = "secret"
  /\ \E r \in Req : Done(r) /\ kind[r] \in {"getSwitch", "updateSwitch"}
                    /\ resp[r].status = 200
                    /\ loc[r].loaded[loc[r].index].password # "********"

----------------------------------------------------------------------------
\* Suggested VNIs

\* the switch of turn i answered with a result
AnsweredTurn(t) == t.reply = "result"

\* the VNIs reported by the switches that answered request r
ReportedVnis(r) ==
  UNION { {NumberOf(Str(k)).n : k \in loc[r].reports[i].report.keys} :
          i \in {j \in DOMAIN loc[r].reports : AnsweredTurn(loc[r].reports[j])} }

\* sq holds, in ascending order, the five smallest integers from 20001 on
\* that are not in used
FiveSmallestFree(sq, used) ==
  /\ Len(sq) = 5
  /\ \A i \in 1..5 : sq[i] >= 20001 /\ sq[i] \notin used
  /\ \A i \in 1..4 : sq[i] < sq[i + 1]
  /\ \A n \in 20001..sq[5] : n \in used \/ \E i \in 1..5 : sq[i] = n

----------------------------------------------------------------------------
\* Switch ids

\* C25: the switches of the inventory have pairwise distinct ids after any
\* sequence of successful POST /api/switches requests, concurrent ones
\* included.
C25_DistinctIds ==
  \A i, j \in DOMAIN file : i # j => file[i].id # file[j].id

----------------------------------------------------------------------------
\* Read-only requests

\* the set of switches stored in the file; a missing file stores none
Stored == IF fileExists THEN {file[i] : i \in DOMAIN file} ELSE {}

\* C26: no step of a GET /api/switches or GET /api/switches/:id request
\* changes the set of switches stored in the file, also when the request
\* runs beside the first add while the file does not exist.
C26_ReadsNeverChangeInventory ==
  [][\A r \in Req :
       (kind[r] \in ReadRoutes /\ pc'[r] # pc[r]) => Stored' = Stored]_vars

----------------------------------------------------------------------------
\* The wizard end to end

\* every field of the submitted form is filled
FormFilled(d) ==
  /\ d.switchA # 0 /\ d.switchB # 0
  /\ Truthy(d.vni)
  /\ d.vtepA # "" /\ d.vtepB # ""
  /\ d.sourceInterfaceA # "" /\ d.sourceInterfaceB # ""

\* no switch refused a batch of request r
NoSwitchRefused(r) == \A i \in DOMAIN sent[r] : sent[r][i].reply \notin ThrownReplies

C28_NeverTheSameSwitchTwice ==
  \A r \in Req :
    IsCreate(r) =>
      /\ r \in WizardRequests => body[r].switchA # body[r].switchB
      /\ \A i, j \in DOMAIN sent[r] :
           (sent[r][i].role = "A" /\ sent[r][j].role = "B") => sent[r][i].host # sent[r][j].host

----------------------------------------------------------------------------
\* The result body of a tunnel creation

WellFormed(result) ==
  /\ result.status # "inProgress"
  /\ result.status = "success" <=>
       /\ result.errorMessage = Null
       /\ \A i \in DOMAIN result.phases : result.phases[i].status # "failed"
  /\ \A i \in DOMAIN result.phases :
       result.phases[i].status = "failed" => i = Len(result.phases)
  /\ \A i, j \in DOMAIN result.phases :
       i < j => result.phases[i].progress <= result.phases[j].progress

\* C29: every result body that POST /api/tunnels/create sends is well
\* formed: its status is never "inProgress"; the status is "success" exactly
\* when errorMessage is null and no phase failed; a failed phase, if there
\* is one, is the last; and the progress values never decrease along the
\* phases.
C29_ResultWellFormed ==
  \A r \in Req :
    (IsCreate(r) /\ Done(r) /\ resp[r].status = 200) => WellFormed(resp[r].result)

\* one request answered "success" with four phases and another answered
\* "failed" after switch A's phase
C29_Witness ==
  \E r1, r2 \in Req :
    /\ Answered(r1, "success") /\ Len(resp[r1].result.phases) = 4
    /\ Answered(r2, "failed") /\ Len(resp[r2].result.phases) = 3
    /\ LastPhase(resp[r2].result).progress = 50

----------------------------------------------------------------------------
\* VLAN creation and its answer

\* createVlan of request r returned: the switch answered its batch with a
\* result
CreatedVlan(r) ==
  /\ kind[r] = "vlanCreate"
  /\ sent[r] # <<>>
  /\ sent[r][Len(sent[r])].reply = "result"

\* C30: POST /api/vlans/:switchId answers 201 whenever it created the VLAN,
\* also when the switch is deleted from the inventory after the client was
\* resolved: no request whose createVlan succeeded answers with an error
\* status.
C30_CreatedVlanAnswers201 ==
  \A r \in Req : (CreatedVlan(r) /\ Done(r)) => resp[r].status = 201

====
